---- MODULE Spec2Model ----
(***************************************************************************)
(* abyss.h v0.4 (src/libs/abyss.h): the Arena and Surge bump allocators    *)
(* and the Totem aggregator, as a state machine over caller buffers.       *)
(*                                                                         *)
(* An allocator lives at the first byte of the buffer the caller gave to   *)
(* its init; mem maps that address to the header fields.  Sizes are those  *)
(* of an LP64 build; ABYSS_THREAD_SAFE_MODE adds a pthread_mutex_t to      *)
(* every header.                                                           *)
(***************************************************************************)
EXTENDS Integers, Sequences, FiniteSets, TLC

VARIABLES
    build,   \* compile-time flags: [align, handle_mode, unsafe_mode, thread_safe_mode]
    buf,     \* caller buffers: address of the first byte -> size given to init
    mem,     \* allocator headers: address -> header fields
    ret,     \* the last call: what was called, with what, what came back
    log,     \* handles the caller holds: successful non-zero allocs not yet freed
    script,  \* shape of the call sequence made so far (see ScriptAlloc)
    ub,      \* TRUE once a call has indexed a Totem's array out of bounds
    kids,    \* per Totem: the children pushed and not yet given back by a pop
    lock,    \* thread-safe mode: address of a header -> thread holding its lock
    pc       \* thread-safe mode: thread -> stack of the calls it is inside

vars == <<build, buf, mem, ret, log, script, ub, kids, lock, pc>>

(***************************************************************************)
(* Program constants.                                                      *)
(***************************************************************************)
ABYSS_SURGE_T == 1
ABYSS_ARENA_T == 2
ABYSS_TOTEM_T == 3

\* abyss_handle_NULL: NULL in pointer mode, offset 0 in ABYSS_HANDLE_MODE.
abyss_handle_NULL == 0
NULL == 0

\* sizeof(Abyss_Arena): size_t offset; size_t size; char buf[];
SizeofArena == 16
\* sizeof(Abyss_Surge): size_t size; size_t offset; size_t count; char buf[];
SizeofSurge == 24
\* sizeof(Abyss_Totem): two unsigned short, padded to the alignment of a slot.
SizeofTotem == 8
\* sizeof of one element of allocators[]: void* ptr; abyss_allocator_t type;
SizeofSlot == 16
\* sizeof(abyss_handle): a void* or a size_t.
SizeofHandle == 8
\* sizeof(pthread_mutex_t), the lock _ABYSS_ADD_LOCK adds to each header.
SizeofMutex == 40
\* unsigned short arithmetic is modulo 2^16; (unsigned short)-1 marks "empty".
USHORT_MOD == 65536
EMPTY_HEAD == USHORT_MOD - 1

(***************************************************************************)
(* size_t arithmetic.  size_t is 64 bits wide; the model computes modulo   *)
(* 2^SizeBits.  Every stored value of the bounded model is far below       *)
(* either modulus, and a wrapped difference is only ever compared with a   *)
(* request size, so each comparison comes out as in the 64-bit build.      *)
(***************************************************************************)
SizeBits == 24
SIZE_MOD == 2 ^ SizeBits

USub(a, b) == (a - b) % SIZE_MOD
UAdd(a, b) == (a + b) % SIZE_MOD

RECURSIVE BitAnd(_, _)
BitAnd(a, b) ==
    IF a = 0 \/ b = 0 THEN 0
    ELSE (a % 2) * (b % 2) + 2 * BitAnd(a \div 2, b \div 2)

\* Rounding to the multiple of align below n instead of the one above.
_ABYSS_ROUND_DOWN(n, align) == BitAnd(n % SIZE_MOD, USub(0, align))
\* (((n) + (align) - 1) & -(align))
_ABYSS_ROUND_UP(n, align) == BitAnd(UAdd(n, align - 1), USub(0, align))

\* _ABYSS_ROUND_UP(sizeof(allocator), ABYSS_DATA_ALIGN)
_ABYSS_ROUND_S(b, sizeof) == _ABYSS_ROUND_UP(sizeof, b.align)

(***************************************************************************)
(* Handles.                                                                *)
(***************************************************************************)
abyss_handle_switch(b, ptr, off) == IF b.handle_mode THEN off ELSE ptr

abyss_handle_is_NULL(val) == val = 0

\* The conversion without its test for the null pointer.
abyss_handle_get_hdl_no_null(b, allocator, ptr) ==
    IF b.handle_mode THEN USub(ptr, allocator) ELSE ptr

abyss_handle_get_hdl(b, allocator, ptr) ==
    IF b.handle_mode
    THEN IF ptr = NULL THEN 0 ELSE USub(ptr, allocator)
    ELSE ptr

abyss_handle_get_ptr(b, allocator, hdl) ==
    IF b.handle_mode
    THEN IF hdl = 0 THEN NULL ELSE UAdd(allocator, hdl)
    ELSE hdl

(***************************************************************************)
(* sizeof of the three headers under the build's flags.                    *)
(***************************************************************************)
SizeofLock(b) == IF b.thread_safe_mode THEN SizeofMutex ELSE 0

sizeof_Abyss_Arena(b) == SizeofArena + SizeofLock(b)
sizeof_Abyss_Surge(b) == SizeofSurge + SizeofLock(b)
sizeof_Abyss_Totem(b) == SizeofTotem + SizeofLock(b)

(***************************************************************************)
(* Containment.  delta is an intptr_t: buf minus ptr.                      *)
(***************************************************************************)
_abyss_arena_contains(b, a, arena, ptr) ==
    LET delta == (a + sizeof_Abyss_Arena(b)) - ptr
    IN  0 <= delta /\ delta < arena.offset

_abyss_surge_contains(b, a, surge, ptr) ==
    LET delta == (a + sizeof_Abyss_Surge(b)) - ptr
    IN  0 <= delta /\ delta < surge.offset

(***************************************************************************)
(* Arena.  Each operation takes the build flags, the allocator's address   *)
(* and its header, and yields the header after the call and the result.    *)
(***************************************************************************)
NoAllocator == [type |-> 0]

WARN_INIT == "not enough mem provided"
WARN_INVALID_FREE == "invalid free, out of the allocated block mem range"
WARN_DOUBLE_FREE == "invalid double free"
WARN_TOTEM_FREE == "invalid free, the allocatos inside the totem didn't have it in range"

abyss_arena_init(b, size) ==
    IF ~b.unsafe_mode /\ size < sizeof_Abyss_Arena(b)
    THEN NoAllocator
    ELSE [type   |-> ABYSS_ARENA_T,
          size   |-> USub(size, sizeof_Abyss_Arena(b)),
          offset |-> USub(_ABYSS_ROUND_S(b, sizeof_Abyss_Arena(b)), sizeof_Abyss_Arena(b))]

abyss_arena_alloc(b, a, arena, size) ==
    IF size = 0
    THEN [obj |-> arena,
          hdl |-> abyss_handle_switch(b, a + arena.offset, arena.offset)]
    ELSE IF USub(arena.size, arena.offset) < size
    THEN [obj |-> arena, hdl |-> abyss_handle_NULL]
    ELSE [obj |-> [arena EXCEPT !.offset =
                       _ABYSS_ROUND_UP(UAdd(arena.offset, size), b.align)],
          hdl |-> abyss_handle_switch(b, a + sizeof_Abyss_Arena(b) + arena.offset,
                                         UAdd(arena.offset, sizeof_Abyss_Arena(b)))]

\* A free that gives the space back when it is handed the last block.
abyss_arena_free_reclaims(b, a, arena, hdl) ==
    IF b.unsafe_mode \/ abyss_handle_is_NULL(hdl)
    THEN [obj |-> arena, warn |-> {}]
    ELSE IF ~_abyss_arena_contains(b, a, arena, abyss_handle_get_ptr(b, a, hdl))
    THEN [obj |-> arena, warn |-> {WARN_INVALID_FREE}]
    ELSE [obj |-> [arena EXCEPT !.offset = USub(_ABYSS_ROUND_S(b, sizeof_Abyss_Arena(b)),
                                               sizeof_Abyss_Arena(b))],
          warn |-> {}]

abyss_arena_free(b, a, arena, hdl) ==
    IF b.unsafe_mode \/ abyss_handle_is_NULL(hdl)
    THEN [obj |-> arena, warn |-> {}]
    ELSE IF ~_abyss_arena_contains(b, a, arena, abyss_handle_get_ptr(b, a, hdl))
    THEN [obj |-> arena, warn |-> {WARN_INVALID_FREE}]
    ELSE [obj |-> arena, warn |-> {}]

abyss_arena_reset(b, arena) ==
    [arena EXCEPT !.offset = USub(_ABYSS_ROUND_S(b, sizeof_Abyss_Arena(b)), sizeof_Abyss_Arena(b))]

(***************************************************************************)
(* Surge.                                                                  *)
(***************************************************************************)
abyss_surge_init(b, size) ==
    IF ~b.unsafe_mode /\ size < sizeof_Abyss_Surge(b)
    THEN NoAllocator
    ELSE [type   |-> ABYSS_SURGE_T,
          size   |-> USub(size, sizeof_Abyss_Surge(b)),
          offset |-> USub(_ABYSS_ROUND_UP(sizeof_Abyss_Arena(b), b.align), sizeof_Abyss_Arena(b)),
          count  |-> 0]

abyss_surge_alloc(b, a, surge, size) ==
    IF size = 0
    THEN [obj |-> surge,
          hdl |-> abyss_handle_switch(b, a + surge.offset, surge.offset)]
    ELSE IF USub(surge.size, surge.offset) < size
    THEN [obj |-> surge, hdl |-> abyss_handle_NULL]
    ELSE [obj |-> [surge EXCEPT
                       !.offset = _ABYSS_ROUND_UP(UAdd(surge.offset, size), b.align),
                       !.count = UAdd(surge.count, 1)],
          hdl |-> abyss_handle_switch(b, a + sizeof_Abyss_Surge(b) + surge.offset,
                                         UAdd(surge.offset, sizeof_Abyss_Surge(b)))]

abyss_surge_free(b, a, surge, hdl) ==
    IF abyss_handle_is_NULL(hdl)
    THEN [obj |-> surge, warn |-> {}]
    ELSE IF ~b.unsafe_mode
            /\ ~_abyss_surge_contains(b, a, surge, abyss_handle_get_ptr(b, a, hdl))
    THEN [obj |-> surge, warn |-> {WARN_INVALID_FREE}]
    ELSE IF ~b.unsafe_mode /\ surge.count = 0
    THEN [obj |-> surge, warn |-> {WARN_DOUBLE_FREE}]
    ELSE [obj |-> [surge EXCEPT
                       !.offset = IF surge.count = 1
                                  THEN USub(_ABYSS_ROUND_S(b, sizeof_Abyss_Surge(b)), sizeof_Abyss_Arena(b))
                                  ELSE surge.offset,
                       !.count = USub(surge.count, 1)],
          warn |-> {}]

abyss_surge_reset(b, surge) ==
    [surge EXCEPT !.offset = USub(_ABYSS_ROUND_S(b, sizeof_Abyss_Surge(b)), sizeof_Abyss_Arena(b)),
                  !.count = 0]

(***************************************************************************)
(* Totem.  Its operations reach the children through the pointers stored   *)
(* in allocators[], so they take and yield the whole of mem.  Two ghost    *)
(* fields tell what a call did: calls lists the direct children whose      *)
(* alloc (free) was called, in call order, and from is the Arena or Surge  *)
(* whose alloc gave the returned handle.  allocators[] is a flexible array *)
(* member: its slots are the 16-byte slots of the caller's buffer behind   *)
(* the header, whatever capacity says.  The model keeps them as a          *)
(* sequence, slot i at position i + 1.  Reading or writing a slot that     *)
(* does not lie inside the buffer, and reading a slot no push has written, *)
(* is undefined behaviour: the operation reports ub and the model stops    *)
(* there.                                                                  *)
(***************************************************************************)
UninitSlot == [ptr |-> NULL, type |-> 0]

\* The number of whole slots of allocators[] that a buffer of size bytes holds
\* behind the header.
SlotsIn(b, size) ==
    IF size < sizeof_Abyss_Totem(b)
    THEN 0
    ELSE (size - sizeof_Abyss_Totem(b)) \div SizeofSlot

\* The size of a buffer that holds the header of a Totem and slots slots.
TotemRoom(b, slots) == sizeof_Abyss_Totem(b) + SizeofSlot * slots

abyss_totem_init(b, size) ==
    IF ~b.unsafe_mode /\ size < sizeof_Abyss_Totem(b)
    THEN NoAllocator
    ELSE LET capacity == (USub(size, sizeof_Abyss_Totem(b)) \div SizeofHandle) % USHORT_MOD
         IN  [type       |-> ABYSS_TOTEM_T,
              head       |-> EMPTY_HEAD,
              capacity   |-> capacity,
              allocators |-> [i \in 1 .. SlotsIn(b, size) |-> UninitSlot] \o <<>>]

\* totem->allocators[i] lies inside the buffer the Totem was given.
InArray(totem, i) == 0 <= i /\ i < Len(totem.allocators)

\* totem->allocators[i], for a slot inside the buffer.
Slot(totem, i) == totem.allocators[i + 1]

RECURSIVE abyss_totem_alloc(_, _, _, _)
RECURSIVE abyss_totem_alloc_loop(_, _, _, _, _, _, _)

\* switch ( allocator.type ) { case ...: hdl = abyss_*_alloc(allocator.ptr, size); }
abyss_totem_alloc_child(b, m, t, i, size, hdl, from) ==
    LET slot == Slot(m[t], i)
    IN  CASE slot.type = ABYSS_ARENA_T ->
               LET x == abyss_arena_alloc(b, slot.ptr, m[slot.ptr], size)
               IN  [mem |-> [m EXCEPT ![slot.ptr] = x.obj], hdl |-> x.hdl,
                    from |-> slot.ptr, calls |-> <<slot.ptr>>, ub |-> FALSE]
          [] slot.type = ABYSS_SURGE_T ->
               LET x == abyss_surge_alloc(b, slot.ptr, m[slot.ptr], size)
               IN  [mem |-> [m EXCEPT ![slot.ptr] = x.obj], hdl |-> x.hdl,
                    from |-> slot.ptr, calls |-> <<slot.ptr>>, ub |-> FALSE]
          [] slot.type = ABYSS_TOTEM_T ->
               LET x == abyss_totem_alloc(b, m, slot.ptr, size)
               IN  [x EXCEPT !.calls = <<slot.ptr>>]
          [] OTHER ->
               [mem |-> m, hdl |-> hdl, from |-> from, calls |-> <<>>,
                ub |-> FALSE]

\* The loop without its break: a null handle of a child does not end the scan.
abyss_totem_alloc_loop_no_break(b, m, t, i, size, hdl, from) ==
    IF i < 0
    THEN [mem |-> m, hdl |-> hdl, from |-> from, calls |-> <<>>, ub |-> FALSE]
    ELSE IF ~InArray(m[t], i)
    THEN [mem |-> m, hdl |-> hdl, from |-> from, calls |-> <<>>, ub |-> TRUE]
    ELSE
      LET r == abyss_totem_alloc_child(b, m, t, i, size, hdl, from)
      IN  IF r.ub
          THEN r
          ELSE LET rest == abyss_totem_alloc_loop(b, r.mem, t, i - 1, size,
                                                  r.hdl, r.from)
               IN  [rest EXCEPT !.calls = r.calls \o rest.calls]
\* for ( int i = totem->head; 0 <= i; i-- ) { ...; if ( is_NULL(hdl) ) break; }
abyss_totem_alloc_loop(b, m, t, i, size, hdl, from) ==
    IF i < 0
    THEN [mem |-> m, hdl |-> hdl, from |-> from, calls |-> <<>>, ub |-> FALSE]
    ELSE IF ~InArray(m[t], i)
    THEN [mem |-> m, hdl |-> hdl, from |-> from, calls |-> <<>>, ub |-> TRUE]
    ELSE
      LET r == abyss_totem_alloc_child(b, m, t, i, size, hdl, from)
      IN  IF r.ub \/ abyss_handle_is_NULL(r.hdl)
          THEN r
          ELSE LET rest == abyss_totem_alloc_loop(b, r.mem, t, i - 1, size,
                                                  r.hdl, r.from)
               IN  [rest EXCEPT !.calls = r.calls \o rest.calls]

abyss_totem_alloc(b, m, t, size) ==
    abyss_totem_alloc_loop(b, m, t, m[t].head, size, abyss_handle_NULL, NULL)

RECURSIVE _abyss_totem_free(_, _, _, _)
RECURSIVE _abyss_totem_free_loop(_, _, _, _, _)

\* for ( int i = totem->head; 0 <= i; i-- ) { ... goto allocator_found; }
_abyss_totem_free_loop(b, m, t, i, ptr) ==
    IF i < 0
    THEN [mem |-> m, found |-> 0, warn |-> {}, calls |-> <<>>, ub |-> FALSE]
    ELSE IF ~InArray(m[t], i)
    THEN [mem |-> m, found |-> 0, warn |-> {}, calls |-> <<>>, ub |-> TRUE]
    ELSE
      LET slot == Slot(m[t], i)
          a == slot.ptr
      IN  CASE slot.type = ABYSS_ARENA_T /\ _abyss_arena_contains(b, a, m[a], ptr) ->
                 LET x == abyss_arena_free(b, a, m[a], abyss_handle_get_hdl(b, a, ptr))
                 IN  [mem |-> [m EXCEPT ![a] = x.obj], found |-> 1, warn |-> x.warn,
                      calls |-> <<a>>, ub |-> FALSE]
            [] slot.type = ABYSS_SURGE_T /\ _abyss_surge_contains(b, a, m[a], ptr) ->
                 LET x == abyss_surge_free(b, a, m[a], abyss_handle_get_hdl(b, a, ptr))
                 IN  [mem |-> [m EXCEPT ![a] = x.obj], found |-> 1, warn |-> x.warn,
                      calls |-> <<a>>, ub |-> FALSE]
            [] slot.type = ABYSS_TOTEM_T ->
                 LET x == _abyss_totem_free(b, m, a, ptr)
                 IN  IF x.ub \/ x.found # 0
                     THEN [x EXCEPT !.calls = <<a>>]
                     ELSE LET rest == _abyss_totem_free_loop(b, x.mem, t, i - 1, ptr)
                          IN  [rest EXCEPT !.calls = <<a>> \o rest.calls]
            [] OTHER -> _abyss_totem_free_loop(b, m, t, i - 1, ptr)

_abyss_totem_free(b, m, t, ptr) ==
    _abyss_totem_free_loop(b, m, t, m[t].head, ptr)

abyss_totem_free(b, m, t, ptr) ==
    LET x == _abyss_totem_free(b, m, t, ptr)
        error == x.found
    IN  IF ~b.unsafe_mode /\ error # 0 /\ ~x.ub
        THEN [x EXCEPT !.warn = x.warn \cup {WARN_TOTEM_FREE}]
        ELSE x

RECURSIVE abyss_totem_reset(_, _, _)
RECURSIVE abyss_totem_reset_loop(_, _, _, _)

abyss_totem_reset_loop(b, m, t, i) ==
    IF i < 0
    THEN [mem |-> m, ub |-> FALSE]
    ELSE IF ~InArray(m[t], i)
    THEN [mem |-> m, ub |-> TRUE]
    ELSE
      LET slot == Slot(m[t], i)
          a == slot.ptr
          r == CASE slot.type = ABYSS_ARENA_T ->
                      [mem |-> [m EXCEPT ![a] = abyss_arena_reset(b, m[a])], ub |-> FALSE]
                 [] slot.type = ABYSS_SURGE_T ->
                      [mem |-> [m EXCEPT ![a] = abyss_surge_reset(b, m[a])], ub |-> FALSE]
                 [] slot.type = ABYSS_TOTEM_T ->
                      abyss_totem_reset(b, m, a)
                 [] OTHER ->
                      [mem |-> m, ub |-> FALSE]
      IN  IF r.ub THEN r ELSE abyss_totem_reset_loop(b, r.mem, t, i - 1)

abyss_totem_reset(b, m, t) == abyss_totem_reset_loop(b, m, t, m[t].head)

abyss_totem_push(b, totem, allocator, type) ==
    IF ~b.unsafe_mode /\ totem.capacity <= (totem.head + 1) % USHORT_MOD
    THEN [obj |-> totem, ptr |-> NULL, ub |-> FALSE]
    ELSE LET head == (totem.head + 1) % USHORT_MOD
         IN  IF ~InArray(totem, head)
             THEN [obj |-> totem, ptr |-> allocator, ub |-> TRUE]
             ELSE [obj |-> [totem EXCEPT
                               !.head = head,
                               !.allocators[head + 1] = [ptr |-> allocator, type |-> type]],
                   ptr |-> allocator, ub |-> FALSE]

\* (short)totem->head
ShortOf(n) == IF n >= USHORT_MOD \div 2 THEN n - USHORT_MOD ELSE n

\* The reads of allocators[indx], and of allocators[indx + 1 .. head] by the
\* loop that moves the entries down, are undefined outside the array.
abyss_totem_pop(b, totem, indx0) ==
    LET indx == IF indx0 < 0 THEN totem.head + indx0 + 1 ELSE indx0
    IN  IF ~b.unsafe_mode /\ (totem.capacity < indx \/ ShortOf(totem.head) < 0)
        THEN [obj |-> totem, ptr |-> NULL, type |-> 0, ub |-> FALSE]
        ELSE IF \/ ~InArray(totem, indx)
                \/ Slot(totem, indx) = UninitSlot
                \/ (indx < totem.head /\ ~InArray(totem, totem.head))
        THEN [obj |-> totem, ptr |-> NULL, type |-> 0, ub |-> TRUE]
        ELSE [obj |-> [totem EXCEPT
                          !.allocators = [k \in DOMAIN totem.allocators |->
                              LET i == k - 1
                              IN  IF indx <= i /\ i < totem.head
                                  THEN Slot(totem, i + 1)
                                  ELSE Slot(totem, i)] \o <<>>,
                          !.head = (totem.head - 1) % USHORT_MOD],
              ptr |-> Slot(totem, indx).ptr,
              type |-> Slot(totem, indx).type,
              ub |-> FALSE]

(***************************************************************************)
(* Bounds of the model.                                                    *)
(***************************************************************************)
\* Buffers given to an Arena or Surge init hold up to MaxUsable bytes more
\* than the header.
MaxUsable == 17
\* Request sizes are 0, 1 and the two sizes up to MaxAlloc.
MaxAlloc == 9
\* The caller holds at most MaxLog live handles.
MaxLog == 3
\* No alloc is called once offset has passed OffsetCap.
OffsetCap == 32
\* Address of the buffer of the allocator of Spec.
LeafBase == 64

\* Totems of SpecTotem are given a buffer that holds TotemCap slots.
TotemCap == 2
\* Arenas and Surges of SpecTotem hold TotemLeafBlocks aligned blocks.
TotemLeafBlocks == 2
\* Address of the Totem of SpecTotem.
TotemBase == 16

\* #define ABYSS_DATA_ALIGN 8
ABYSS_DATA_ALIGN == 8

Aligns == {ABYSS_DATA_ALIGN, 2 * ABYSS_DATA_ALIGN}

AllocSizes == {0, 1, MaxAlloc - 1, MaxAlloc}

Builds == [align : Aligns, handle_mode : BOOLEAN, unsafe_mode : {FALSE},
           thread_safe_mode : {FALSE}]

IsLeaf(obj) == obj.type \in {ABYSS_ARENA_T, ABYSS_SURGE_T}

Sizeof(type) ==
    CASE type = ABYSS_ARENA_T -> SizeofArena
      [] type = ABYSS_SURGE_T -> SizeofSurge
      [] type = ABYSS_TOTEM_T -> SizeofTotem

(***************************************************************************)
(* What the caller keeps of the calls it made.                             *)
(***************************************************************************)
\* type is the tag a pop wrote through its out parameter, 0 for other calls.
Ret(op, a, arg, hdl, warn, calls) ==
    [op |-> op, a |-> a, arg |-> arg, hdl |-> hdl, warn |-> warn, calls |-> calls,
     type |-> 0]

Holds(a, hdl) == \E i \in 1 .. Len(log) : log[i].a = a /\ log[i].hdl = hdl

\* script tells the shape of the call sequence made so far:
\* "allocs": since init only alloc(n > 0) calls, all successful;
\* "allocfail": such a run, then one alloc(n > 0) that returned null;
\* "frees": a run of successful alloc(n > 0), then only frees of held handles;
\* "off": any other sequence: the caller keeps no list of its handles;
\* "track": any sequence, the caller keeping the list of its handles.
ScriptAlloc(size, hdl) ==
    CASE script = "track" -> "track"
      [] script = "allocs" /\ size > 0 ->
           IF abyss_handle_is_NULL(hdl) THEN "allocfail" ELSE "allocs"
      [] OTHER -> "off"

ScriptFree(a, hdl) ==
    CASE script = "track" -> "track"
      [] script \in {"allocs", "frees"} /\ Holds(a, hdl) -> "frees"
      [] OTHER -> "off"

ScriptReset == IF script = "track" THEN "track" ELSE "off"

LogAlloc(a, size, hdl) ==
    IF ScriptAlloc(size, hdl) = "off" THEN <<>>
    ELSE IF size > 0 /\ ~abyss_handle_is_NULL(hdl)
    THEN Append(log, [a |-> a, hdl |-> hdl, size |-> size])
    ELSE log

\* log without its first entry for hdl of a.
LogFree(a, hdl) ==
    LET hits == {i \in 1 .. Len(log) : log[i].a = a /\ log[i].hdl = hdl}
    IN  IF ScriptFree(a, hdl) = "off" THEN <<>>
        ELSE IF hits = {} THEN log
        ELSE LET k == CHOOSE i \in hits : \A j \in hits : i <= j
             IN  SubSeq(log, 1, k - 1) \o SubSeq(log, k + 1, Len(log))

LogReset(as) ==
    IF ScriptReset = "off" THEN <<>> ELSE SelectSeq(log, LAMBDA e : e.a \notin as)

\* Handles passed to free: the held ones, null, the blocks at the first
\* positions of the buffer, held or not, and an address inside the first.
FreeArgs(a) ==
    {log[i].hdl : i \in {j \in 1 .. Len(log) : log[j].a = a}}
    \cup {abyss_handle_NULL}
    \cup {abyss_handle_get_hdl(build, a, a + Sizeof(mem[a].type) + k * 4) : k \in 0 .. 2}

(***************************************************************************)
(* Arena and Surge calls.                                                  *)
(***************************************************************************)
ArenaAlloc(a, size) ==
    /\ ~ub
    /\ mem[a].type = ABYSS_ARENA_T
    /\ mem[a].offset <= OffsetCap
    /\ LET r == abyss_arena_alloc(build, a, mem[a], size) IN
         /\ Len(LogAlloc(a, size, r.hdl)) <= MaxLog
         /\ mem' = [mem EXCEPT ![a] = r.obj]
         /\ ret' = Ret("alloc", a, size, r.hdl, {}, <<>>)
         /\ log' = LogAlloc(a, size, r.hdl)
         /\ script' = ScriptAlloc(size, r.hdl)
    /\ UNCHANGED <<build, buf, ub, kids, lock, pc>>

ArenaFree(a, hdl) ==
    /\ ~ub
    /\ mem[a].type = ABYSS_ARENA_T
    /\ LET r == abyss_arena_free(build, a, mem[a], hdl) IN
         /\ mem' = [mem EXCEPT ![a] = r.obj]
         /\ ret' = Ret("free", a, hdl, abyss_handle_NULL, r.warn, <<>>)
    /\ log' = LogFree(a, hdl)
    /\ script' = ScriptFree(a, hdl)
    /\ UNCHANGED <<build, buf, ub, kids, lock, pc>>

ArenaReset(a) ==
    /\ ~ub
    /\ mem[a].type = ABYSS_ARENA_T
    /\ mem' = [mem EXCEPT ![a] = abyss_arena_reset(build, mem[a])]
    /\ ret' = Ret("reset", a, 0, abyss_handle_NULL, {}, <<>>)
    /\ log' = LogReset({a})
    /\ script' = ScriptReset
    /\ UNCHANGED <<build, buf, ub, kids, lock, pc>>

SurgeAlloc(a, size) ==
    /\ ~ub
    /\ mem[a].type = ABYSS_SURGE_T
    /\ mem[a].offset <= OffsetCap
    /\ LET r == abyss_surge_alloc(build, a, mem[a], size) IN
         /\ Len(LogAlloc(a, size, r.hdl)) <= MaxLog
         /\ mem' = [mem EXCEPT ![a] = r.obj]
         /\ ret' = Ret("alloc", a, size, r.hdl, {}, <<>>)
         /\ log' = LogAlloc(a, size, r.hdl)
         /\ script' = ScriptAlloc(size, r.hdl)
    /\ UNCHANGED <<build, buf, ub, kids, lock, pc>>

SurgeFree(a, hdl) ==
    /\ ~ub
    /\ mem[a].type = ABYSS_SURGE_T
    /\ LET r == abyss_surge_free(build, a, mem[a], hdl) IN
         /\ mem' = [mem EXCEPT ![a] = r.obj]
         /\ ret' = Ret("free", a, hdl, abyss_handle_NULL, r.warn, <<>>)
    /\ log' = LogFree(a, hdl)
    /\ script' = ScriptFree(a, hdl)
    /\ UNCHANGED <<build, buf, ub, kids, lock, pc>>

SurgeReset(a) ==
    /\ ~ub
    /\ mem[a].type = ABYSS_SURGE_T
    /\ mem' = [mem EXCEPT ![a] = abyss_surge_reset(build, mem[a])]
    /\ ret' = Ret("reset", a, 0, abyss_handle_NULL, {}, <<>>)
    /\ log' = LogReset({a})
    /\ script' = ScriptReset
    /\ UNCHANGED <<build, buf, ub, kids, lock, pc>>

(***************************************************************************)
(* Totem calls.                                                            *)
(***************************************************************************)
Totems == {t \in DOMAIN mem : mem[t].type = ABYSS_TOTEM_T}

\* The number of children of t: (unsigned short)(head + 1), 0 for the empty
\* Totem.
Count(m, t) == (m[t].head + 1) % USHORT_MOD

\* The allocators stored in slots 0 .. head of t.
Children(m, t) ==
    {Slot(m[t], i).ptr :
       i \in {j \in 0 .. Count(m, t) - 1 : InArray(m[t], j)}}

RECURSIVE Descendants(_, _)
Descendants(m, t) ==
    Children(m, t) \cup
    UNION {Descendants(m, c) : c \in {x \in Children(m, t) : m[x].type = ABYSS_TOTEM_T}}

\* Addresses passed to a Totem free: those of the held handles, and null.
PtrArgs == {abyss_handle_get_ptr(build, log[i].a, log[i].hdl) : i \in 1 .. Len(log)}
           \cup {NULL}

\* log without its first entry for the block at ptr.
LogFreePtr(ptr) ==
    LET hits == {i \in 1 .. Len(log) :
                   abyss_handle_get_ptr(build, log[i].a, log[i].hdl) = ptr}
    IN  IF ScriptReset = "off" THEN <<>>
        ELSE IF hits = {} THEN log
        ELSE LET k == CHOOSE i \in hits : \A j \in hits : i <= j
             IN  SubSeq(log, 1, k - 1) \o SubSeq(log, k + 1, Len(log))

TotemAlloc(t, size) ==
    /\ ~ub
    /\ mem[t].type = ABYSS_TOTEM_T
    /\ \A a \in DOMAIN mem : IsLeaf(mem[a]) => mem[a].offset <= OffsetCap
    /\ LET r == abyss_totem_alloc(build, mem, t, size) IN
         /\ Len(LogAlloc(r.from, size, r.hdl)) <= MaxLog
         /\ mem' = r.mem
         /\ ub' = r.ub
         /\ ret' = Ret("totem_alloc", t, size, r.hdl, {}, r.calls)
         /\ log' = LogAlloc(r.from, size, r.hdl)
         /\ script' = ScriptAlloc(size, r.hdl)
    /\ UNCHANGED <<build, buf, kids, lock, pc>>

TotemFree(t, ptr) ==
    /\ ~ub
    /\ mem[t].type = ABYSS_TOTEM_T
    /\ LET r == abyss_totem_free(build, mem, t, ptr) IN
         /\ mem' = r.mem
         /\ ub' = r.ub
         /\ ret' = Ret("totem_free", t, ptr, abyss_handle_NULL, r.warn, r.calls)
    /\ log' = LogFreePtr(ptr)
    /\ script' = ScriptReset
    /\ UNCHANGED <<build, buf, kids, lock, pc>>

TotemReset(t) ==
    /\ ~ub
    /\ mem[t].type = ABYSS_TOTEM_T
    /\ LET r == abyss_totem_reset(build, mem, t) IN
         /\ mem' = r.mem
         /\ ub' = r.ub
    /\ ret' = Ret("totem_reset", t, 0, abyss_handle_NULL, {}, <<>>)
    /\ log' = LogReset(Descendants(mem, t))
    /\ script' = ScriptReset
    /\ UNCHANGED <<build, buf, kids, lock, pc>>

\* The caller's list of a Totem's children after a push that returned ptr.
KidsPush(l, ptr) == IF ptr = NULL THEN l ELSE Append(l, ptr)

\* The caller's list of a Totem's children after a pop that returned ptr.
KidsPop(l, ptr) ==
    LET hits == {i \in 1 .. Len(l) : l[i] = ptr}
    IN  IF hits = {}
        THEN l
        ELSE LET k == CHOOSE i \in hits : \A j \in hits : i <= j
             IN  SubSeq(l, 1, k - 1) \o SubSeq(l, k + 1, Len(l))

\* The caller pushes an allocator that is in no Totem yet, and that it has
\* got back from every Totem it pushed it on, under its own tag.
TotemPush(t, c) ==
    /\ ~ub
    /\ mem[t].type = ABYSS_TOTEM_T
    /\ c # t
    /\ \A u \in Totems : c \notin Children(mem, u)
    /\ \A u \in DOMAIN kids : c \notin {kids[u][k] : k \in DOMAIN kids[u]}
    /\ mem[c].type = ABYSS_TOTEM_T => t \notin Descendants(mem, c)
    /\ LET r == abyss_totem_push(build, mem[t], c, mem[c].type) IN
         /\ mem' = [mem EXCEPT ![t] = r.obj]
         /\ ub' = r.ub
         /\ ret' = Ret("push", t, c, r.ptr, {}, <<>>)
         /\ kids' = [kids EXCEPT ![t] = KidsPush(@, r.ptr)]
    /\ UNCHANGED <<build, buf, log, script, lock, pc>>

TotemPop(t, indx) ==
    /\ ~ub
    /\ mem[t].type = ABYSS_TOTEM_T
    /\ LET r == abyss_totem_pop(build, mem[t], indx) IN
         /\ mem' = [mem EXCEPT ![t] = r.obj]
         /\ ub' = r.ub
         /\ ret' = [Ret("pop", t, indx, r.ptr, {}, <<>>) EXCEPT !.type = r.type]
         /\ kids' = [kids EXCEPT ![t] = KidsPop(@, r.ptr)]
    /\ UNCHANGED <<build, buf, log, script, lock, pc>>

(***************************************************************************)
(* Spec: one Arena or one Surge, on a buffer of any size from one byte     *)
(* short of the header up to MaxUsable bytes past it, under every build.   *)
(* An init that fails leaves no allocator to call.                         *)
(***************************************************************************)
LeafInit(b, type, size) ==
    IF type = ABYSS_ARENA_T THEN abyss_arena_init(b, size) ELSE abyss_surge_init(b, size)

Init ==
    /\ build \in Builds
    /\ \E type \in {ABYSS_ARENA_T, ABYSS_SURGE_T} :
       \E size \in (Sizeof(type) - 1) .. (Sizeof(type) + MaxUsable) :
         LET obj == LeafInit(build, type, size) IN
           /\ buf = (LeafBase :> size)
           /\ mem = IF obj = NoAllocator THEN <<>> ELSE (LeafBase :> obj)
           /\ ret = Ret("init", LeafBase, size,
                        IF obj = NoAllocator THEN NULL ELSE LeafBase,
                        IF obj = NoAllocator THEN {WARN_INIT} ELSE {}, <<>>)
    /\ log = <<>>
    /\ script = "allocs"
    /\ ub = FALSE
    /\ kids = <<>>
    /\ lock = <<>>
    /\ pc = <<>>

Next ==
    \/ \E a \in DOMAIN mem, size \in AllocSizes : ArenaAlloc(a, size)
    \/ \E a \in DOMAIN mem : \E hdl \in FreeArgs(a) : ArenaFree(a, hdl)
    \/ \E a \in DOMAIN mem : ArenaReset(a)
    \/ \E a \in DOMAIN mem, size \in AllocSizes : SurgeAlloc(a, size)
    \/ \E a \in DOMAIN mem : \E hdl \in FreeArgs(a) : SurgeFree(a, hdl)
    \/ \E a \in DOMAIN mem : SurgeReset(a)

Spec == Init /\ [][Next]_vars

(***************************************************************************)
(* SpecTotem: a Totem on a buffer of TotemCap slots and two allocators the *)
(* caller may push on it and also call directly: A and B, each an Arena or *)
(* a Surge, in adjacent buffers in either order.  Pointer mode, default    *)
(* alignment, safety checks on.  The caller keeps the list of its handles, *)
(* asks for nothing or for one aligned block, frees and resets through the *)
(* Totem, and pops the first or the last child.                            *)
(***************************************************************************)
ABYSS_TOTEM_SIZE(capacity) == SizeofTotem + SizeofHandle * capacity

LeafBufSize(type) == Sizeof(type) + TotemLeafBlocks * ABYSS_DATA_ALIGN

InitTotem ==
    /\ build = [align |-> ABYSS_DATA_ALIGN, handle_mode |-> FALSE,
                unsafe_mode |-> FALSE, thread_safe_mode |-> FALSE]
    /\ \E typeA, typeB \in {ABYSS_ARENA_T, ABYSS_SURGE_T} :
       \E low \in {"A", "B"} :
         LET sizeA == LeafBufSize(typeA)
             sizeB == LeafBufSize(typeB)
             sizeT == TotemRoom(build, TotemCap)
             baseA == IF low = "A" THEN LeafBase ELSE LeafBase + sizeB
             baseB == IF low = "B" THEN LeafBase ELSE LeafBase + sizeA
         IN  /\ buf = (TotemBase :> sizeT) @@ (baseA :> sizeA) @@ (baseB :> sizeB)
             /\ mem = (TotemBase :> abyss_totem_init(build, sizeT))
                      @@ (baseA :> LeafInit(build, typeA, sizeA))
                      @@ (baseB :> LeafInit(build, typeB, sizeB))
             /\ ret = Ret("init", TotemBase, sizeT, TotemBase, {}, <<>>)
    /\ log = <<>>
    /\ script = "track"
    /\ ub = FALSE
    /\ kids = (TotemBase :> <<>>)
    /\ lock = <<>>
    /\ pc = <<>>

TotemAllocSizes == {0, ABYSS_DATA_ALIGN}

NextTotem ==
    \/ \E a \in DOMAIN mem, size \in TotemAllocSizes : ArenaAlloc(a, size)
    \/ \E a \in DOMAIN mem, size \in TotemAllocSizes : SurgeAlloc(a, size)
    \/ \E t \in Totems, size \in TotemAllocSizes : TotemAlloc(t, size)
    \/ \E t \in Totems : \E ptr \in PtrArgs : TotemFree(t, ptr)
    \/ \E t \in Totems : TotemReset(t)
    \/ \E t \in Totems, c \in DOMAIN mem : TotemPush(t, c)
    \/ \E t \in Totems : \E indx \in {-1, 0} : TotemPop(t, indx)

SpecTotem == InitTotem /\ [][NextTotem]_vars

(***************************************************************************)
(* Vocabulary of the properties.                                           *)
(***************************************************************************)
Leaves == {a \in DOMAIN mem : IsLeaf(mem[a])}
Surges == {a \in DOMAIN mem : mem[a].type = ABYSS_SURGE_T}

\* n rounded up to a multiple of al, in the integers.
AlignUp(n, al) == ((n + al - 1) \div al) * al

\* The header init wrote at a.
AtInit(a) == LeafInit(build, mem[a].type, buf[a])

\* Buffer size minus the aligned header size.
Available(a) == buf[a] - AlignUp(Sizeof(mem[a].type), build.align)

RECURSIVE CumAligned(_)
\* Sum of the aligned sizes of the held blocks.
CumAligned(l) ==
    IF l = <<>> THEN 0
    ELSE AlignUp(Head(l).size, build.align) + CumAligned(Tail(l))

(***************************************************************************)
(* C1.  For an Arena or Surge on a buffer of any size >= its header size,  *)
(* 0 <= offset <= size holds after every sequence of alloc, free and       *)
(* reset calls.                                                            *)
(***************************************************************************)
C1_OffsetWithinSize ==
    \A a \in Leaves : 0 <= mem[a].offset /\ mem[a].offset <= mem[a].size

C3_NoRoomReturnsNull ==
    [][\A a \in Leaves :
         (/\ ret'.op = "alloc" /\ ret'.a = a /\ ret'.arg > 0
          /\ mem[a].size - mem[a].offset < ret'.arg)
         => /\ abyss_handle_is_NULL(ret'.hdl)
            /\ mem'[a] = mem[a]
            /\ LET again == IF mem'[a].type = ABYSS_ARENA_T
                            THEN abyss_arena_alloc(build, a, mem'[a], ret'.arg)
                            ELSE abyss_surge_alloc(build, a, mem'[a], ret'.arg)
               IN  abyss_handle_is_NULL(again.hdl) /\ again.obj = mem'[a]]_vars

(***************************************************************************)
(* C4.  Where an Arena or Surge has room for a further allocation,         *)
(* alloc(0) returns the handle the next alloc(n), n > 0, returns, and      *)
(* changes neither offset nor count.                                       *)
(***************************************************************************)
C4_ZeroSizePeeksNextHandle ==
    [][\A a \in Leaves :
         (ret'.op = "alloc" /\ ret'.a = a /\ ret'.arg = 0)
         => /\ mem'[a] = mem[a]
            /\ \A n \in AllocSizes \ {0} :
                 LET next == IF mem'[a].type = ABYSS_ARENA_T
                             THEN abyss_arena_alloc(build, a, mem'[a], n)
                             ELSE abyss_surge_alloc(build, a, mem'[a], n)
                 IN  ~abyss_handle_is_NULL(next.hdl) => ret'.hdl = next.hdl]_vars

(***************************************************************************)
(* C5.  On a Surge with the safety checks on, k successful allocations of  *)
(* non-zero size followed by one free of each of the k handles, in any     *)
(* order, leave count = 0 and offset at the aligned start (read here as    *)
(* either value the code uses for it: the one of init or the one of        *)
(* reset).                                                                 *)
(***************************************************************************)
C5_DrainReturnsToStart ==
    \A a \in Surges :
      (~build.unsafe_mode /\ script = "frees" /\ log = <<>>)
      => /\ mem[a].count = 0
         /\ mem[a].offset \in {AtInit(a).offset,
                               abyss_surge_reset(build, mem[a]).offset}

(***************************************************************************)
(* C6.  In every reachable state of a Surge, count = 0 implies that offset *)
(* is the aligned start that init established.                             *)
(***************************************************************************)
C6_EmptySurgeAtStart ==
    \A a \in Surges : mem[a].count = 0 => mem[a].offset = AtInit(a).offset

(***************************************************************************)
(* Vocabulary of the Totem properties.                                     *)
(***************************************************************************)
\* The child in slot i of t.
Child(m, t, i) == Slot(m[t], i).ptr

\* The handle the alloc of the allocator at c returns, called on m.
AllocOn(m, c, size) ==
    CASE m[c].type = ABYSS_ARENA_T -> abyss_arena_alloc(build, c, m[c], size).hdl
      [] m[c].type = ABYSS_SURGE_T -> abyss_surge_alloc(build, c, m[c], size).hdl
      [] m[c].type = ABYSS_TOTEM_T -> abyss_totem_alloc(build, m, c, size).hdl

\* The block at ptr lies in the buffer of the allocator at a, past its header.
InBuffer(a, ptr) == a + Sizeof(mem[a].type) <= ptr /\ ptr < a + buf[a]

\* The call made by this step was alloc(n), n > 0, on the Totem t.
IsTotemAlloc(t) == ret'.op = "totem_alloc" /\ ret'.a = t /\ ret'.arg > 0 /\ ~ub'

(***************************************************************************)
(* C7.  A Totem alloc(n), n > 0, that returns a handle has asked its       *)
(* children from head down, stopped at the first that gave a handle and    *)
(* returned that handle: the cursor of exactly that child has advanced,    *)
(* and the children at lower indices were not asked and are unchanged.     *)
(***************************************************************************)
C7_FirstNonNullChildServes ==
    [][\A t \in Totems :
         (IsTotemAlloc(t) /\ ~abyss_handle_is_NULL(ret'.hdl))
         => \E k \in 0 .. Count(mem, t) - 1 :
              /\ ret'.calls = [i \in 1 .. mem[t].head - k + 1 |->
                                 Child(mem, t, mem[t].head - i + 1)]
              /\ ret'.hdl = AllocOn(mem, Child(mem, t, k), ret'.arg)
              /\ mem'[Child(mem, t, k)] # mem[Child(mem, t, k)]
              /\ \A a \in DOMAIN mem \ {Child(mem, t, k)} : mem'[a] = mem[a]]_vars

(***************************************************************************)
(* C8.  Where Totem alloc(n) returns null because the children are full,   *)
(* once a fresh Arena with at least n free bytes has been pushed on the    *)
(* Totem, Totem alloc(n) returns a handle that lies in that Arena.         *)
(***************************************************************************)
C8_AllocAfterPushOfFreshArena ==
    [][\A t \in Totems :
         LET f == ret.hdl
             n == ret'.arg
             before == [mem EXCEPT ![t] = abyss_totem_pop(build, mem[t], -1).obj]
         IN  (/\ IsTotemAlloc(t)
              /\ ret.op = "push" /\ ret.a = t /\ f # NULL
              /\ mem[f] = abyss_arena_init(build, buf[f])
              /\ mem[f].size - mem[f].offset >= n
              /\ Count(before, t) >= 1
              /\ \A c \in Children(before, t) : abyss_handle_is_NULL(AllocOn(before, c, n))
              /\ abyss_handle_is_NULL(abyss_totem_alloc(build, before, t, n).hdl))
             => /\ ~abyss_handle_is_NULL(ret'.hdl)
                /\ InBuffer(f, ret'.hdl)]_vars

(***************************************************************************)
(* C9.  When the child at head returns null for Totem alloc(n), the Totem  *)
(* returns null and has asked no other child: the children below head are  *)
(* unchanged, also those with enough space.                                *)
(***************************************************************************)
C9_NullAtHeadStopsScan ==
    [][\A t \in Totems :
         (/\ IsTotemAlloc(t)
          /\ Count(mem, t) >= 1
          /\ abyss_handle_is_NULL(AllocOn(mem, Child(mem, t, mem[t].head), ret'.arg)))
         => /\ abyss_handle_is_NULL(ret'.hdl)
            /\ ret'.calls = <<Child(mem, t, mem[t].head)>>
            /\ \A c \in Children(mem, t) : mem'[c] = mem[c]]_vars

\* A Totem alloc(n) has just returned null, having asked the child at head
\* alone, while a child below head has room for n.
C9_Witness ==
    \E t \in Totems :
      /\ ret.op = "totem_alloc" /\ ret.a = t /\ ret.arg > 0
      /\ abyss_handle_is_NULL(ret.hdl)
      /\ Count(mem, t) >= 2
      /\ ret.calls = <<Child(mem, t, mem[t].head)>>
      /\ \E i \in 0 .. mem[t].head - 1 :
           ~abyss_handle_is_NULL(AllocOn(mem, Child(mem, t, i), ret.arg))

(***************************************************************************)
(* C10.  With children A then B on a Totem, Totem free(ptr) for the        *)
(* pointer of any held allocation of B calls the free of B, and of B       *)
(* alone, and leaves A unchanged, wherever the two buffers lie.            *)
(***************************************************************************)
C10_FreeRoutesToOwner ==
    [][\A t \in Totems :
         (/\ ret'.op = "totem_free" /\ ret'.a = t /\ ~ub'
          /\ Count(mem, t) = 2
          /\ \E i \in 1 .. Len(log) :
               /\ log[i].a = Child(mem, t, 1)
               /\ abyss_handle_get_ptr(build, log[i].a, log[i].hdl) = ret'.arg)
         => /\ ret'.calls = <<Child(mem, t, 1)>>
            /\ mem'[Child(mem, t, 0)] = mem[Child(mem, t, 0)]]_vars

(***************************************************************************)
(* ABYSS_THREAD_SAFE_MODE.  Every header holds a pthread mutex; a call is  *)
(* a sequence of steps of the calling thread: it takes the lock of its     *)
(* instance, runs its body, releases the lock and returns.  A Totem call   *)
(* keeps the Totem's lock while it calls its children, so a thread is      *)
(* inside a stack of calls; pc[th] is that stack, innermost call last.     *)
(*                                                                         *)
(* A frame is [fn, self, arg, at, i, res, obj]: the function, the instance *)
(* it was called on, its argument, the next step, the loop index of a      *)
(* Totem call, the value to return, and the header an alloc is about to    *)
(* store.  The mutex is the default one of pthread_mutex_init(.., NULL):   *)
(* a thread that locks a mutex it already holds waits forever.             *)
(***************************************************************************)
Threads == DOMAIN pc

Frame(fn, self, arg, at) ==
    [fn |-> fn, self |-> self, arg |-> arg, at |-> at, i |-> 0,
     res |-> abyss_handle_NULL, obj |-> 0]

LeafAllocFns == {"abyss_arena_alloc", "abyss_surge_alloc"}
LeafFreeFns == {"abyss_arena_free", "abyss_surge_free"}
LeafResetFns == {"abyss_arena_reset", "abyss_surge_reset"}
LeafDestroyFns == {"abyss_arena_destroy", "abyss_surge_destroy"}
TotemLoopFns == {"abyss_totem_alloc", "_abyss_totem_free", "abyss_totem_reset",
                 "abyss_totem_destroy"}

\* lock[a] once pthread_mutex_destroy has been called on the mutex of a.
MutexDestroyed == -1

\* The function a Totem's switch calls for a child of the given type.
ChildFn(fn, type) ==
    CASE fn = "abyss_totem_alloc" ->
           (CASE type = ABYSS_ARENA_T -> "abyss_arena_alloc"
              [] type = ABYSS_SURGE_T -> "abyss_surge_alloc"
              [] type = ABYSS_TOTEM_T -> "abyss_totem_alloc")
      [] fn = "_abyss_totem_free" ->
           (CASE type = ABYSS_ARENA_T -> "abyss_arena_free"
              [] type = ABYSS_SURGE_T -> "abyss_surge_free"
              [] type = ABYSS_TOTEM_T -> "_abyss_totem_free")
      [] fn = "abyss_totem_reset" ->
           (CASE type = ABYSS_ARENA_T -> "abyss_arena_reset"
              [] type = ABYSS_SURGE_T -> "abyss_surge_reset"
              [] type = ABYSS_TOTEM_T -> "abyss_totem_reset")
      [] fn = "abyss_totem_destroy" ->
           (CASE type = ABYSS_ARENA_T -> "abyss_arena_destroy"
              [] type = ABYSS_SURGE_T -> "abyss_surge_destroy"
              [] type = ABYSS_TOTEM_T -> "abyss_totem_destroy")

\* The first step of a call: the free of an Arena or a Surge tests its handle
\* for null before it takes the lock, the destroy of an Arena or a Surge takes
\* no lock, every other function locks first.
FirstStep(fn) ==
    CASE fn \in LeafFreeFns -> "entry"
      [] fn \in LeafDestroyFns -> "destroy"
      [] OTHER -> "lock"

\* pthread_mutex_lock returns once the mutex is held by no thread.
MutexIgnored(l, a) == TRUE
MutexFree(l, a) == l[a] = 0

\* The frame of a Totem call after the child call c has returned result.
Resume(parent, c, result) ==
    CASE parent.fn = "abyss_totem_alloc" ->
           IF abyss_handle_is_NULL(result)
           THEN [parent EXCEPT !.res = result, !.at = "unlock"]
           ELSE [parent EXCEPT !.res = result, !.i = @ - 1]
      [] parent.fn = "_abyss_totem_free" ->
           IF c.fn = "_abyss_totem_free" /\ result = 0
           THEN [parent EXCEPT !.i = @ - 1]
           ELSE [parent EXCEPT !.res = 1, !.at = "unlock"]
      [] parent.fn \in {"abyss_totem_reset", "abyss_totem_destroy"} ->
           [parent EXCEPT !.i = @ - 1]

\* The stack of a thread after its innermost call has returned result.
Returned(stack, result) ==
    IF Len(stack) = 1
    THEN <<>>
    ELSE Append(SubSeq(stack, 1, Len(stack) - 2),
                Resume(stack[Len(stack) - 1], stack[Len(stack)], result))

Top(th) == pc[th][Len(pc[th])]

\* The stack with its innermost frame replaced by f.
WithTop(stack, f) == [stack EXCEPT ![Len(stack)] = f]

\* The alloc, free or reset of an Arena or Surge, applied to the header in memory.
LeafOp(b, f) ==
    LET a == f.self
    IN  CASE f.fn = "abyss_arena_alloc" -> abyss_arena_alloc(b, a, mem[a], f.arg)
          [] f.fn = "abyss_surge_alloc" -> abyss_surge_alloc(b, a, mem[a], f.arg)
          [] f.fn = "abyss_arena_free" -> abyss_arena_free(b, a, mem[a], f.arg)
          [] f.fn = "abyss_surge_free" -> abyss_surge_free(b, a, mem[a], f.arg)
          [] f.fn = "abyss_arena_reset" -> [obj |-> abyss_arena_reset(b, mem[a])]
          [] f.fn = "abyss_surge_reset" -> [obj |-> abyss_surge_reset(b, mem[a])]

\* The thread moves on inside its innermost call; nothing is returned.
Goes(th, f) ==
    /\ pc' = [pc EXCEPT ![th] = WithTop(@, f)]
    /\ UNCHANGED <<ret, log, script>>

\* The innermost call of the thread returns result.  While the threads have
\* called nothing but alloc(n > 0), push and pop, log lists the allocs of
\* Arenas and Surges that have returned, with the thread, the result and
\* the threads that were inside a call of their own at that moment.
Returns(th, result) ==
    LET f == Top(th)
        logged == script = "allocs" /\ f.fn \in LeafAllocFns
    IN  /\ pc' = [pc EXCEPT ![th] = Returned(@, result)]
        /\ UNCHANGED ret
        /\ script' = IF logged /\ Len(log) >= MaxLog THEN "off" ELSE script
        /\ log' = IF logged
                  THEN IF Len(log) >= MaxLog
                       THEN <<>>
                       ELSE Append(log, [a |-> f.self, size |-> f.arg,
                                         hdl |-> result, th |-> th,
                                         during |-> {u \in Threads \ {th} :
                                                       pc[u] # <<>>}])
                  ELSE log

\* pthread_mutex_lock(&self->lock), and for a Totem loop: int i = totem->head.
ThLock(th) ==
    /\ ~ub
    /\ pc[th] # <<>>
    /\ LET f == Top(th) IN
         /\ f.at = "lock"
         /\ MutexFree(lock, f.self)
         /\ lock' = [lock EXCEPT ![f.self] = th]
         /\ Goes(th, IF f.fn \in TotemLoopFns
                     THEN [f EXCEPT !.at = "loop", !.i = mem[f.self].head]
                     ELSE [f EXCEPT !.at = "body"])
    /\ UNCHANGED <<build, buf, mem, ub, kids>>

\* pthread_mutex_unlock(&self->lock); return.  abyss_totem_destroy does not
\* return yet: it goes on to pthread_mutex_destroy(&totem->lock).
ThUnlock(th) ==
    /\ ~ub
    /\ pc[th] # <<>>
    /\ LET f == Top(th) IN
         /\ f.at = "unlock"
         /\ lock' = [lock EXCEPT ![f.self] = 0]
         /\ IF f.fn = "abyss_totem_destroy"
            THEN Goes(th, [f EXCEPT !.at = "destroy"])
            ELSE Returns(th, f.res)
    /\ UNCHANGED <<build, buf, mem, ub, kids>>

\* if ( abyss_handle_is_NULL(hdl) ) { return; }, before the lock is taken.
ThEntry(th) ==
    /\ ~ub
    /\ pc[th] # <<>>
    /\ LET f == Top(th) IN
         /\ f.at = "entry"
         /\ IF abyss_handle_is_NULL(f.arg)
               \/ (f.fn = "abyss_arena_free" /\ build.unsafe_mode)
            THEN Returns(th, 0)
            ELSE Goes(th, [f EXCEPT !.at = "lock"])
    /\ UNCHANGED <<build, buf, mem, ub, kids, lock>>

\* The body of an Arena or Surge call, the lock taken.  alloc(0) returns at
\* once; an alloc that finds room has read the cursor and is about to store
\* the new one; an alloc that finds none, a free and a reset go to the unlock.
ThLeafBody(th) ==
    /\ ~ub
    /\ pc[th] # <<>>
    /\ LET f == Top(th)
           x == LeafOp(build, f)
       IN
         /\ f.at = "body"
         /\ f.fn \in LeafAllocFns \cup LeafFreeFns \cup LeafResetFns
         /\ IF f.fn \in LeafAllocFns
            THEN /\ UNCHANGED mem
                 /\ IF f.arg = 0
                    THEN Returns(th, x.hdl)
                    ELSE IF abyss_handle_is_NULL(x.hdl)
                    THEN Goes(th, [f EXCEPT !.at = "unlock", !.res = x.hdl])
                    ELSE Goes(th, [f EXCEPT !.at = "store", !.res = x.hdl,
                                            !.obj = x.obj])
            ELSE /\ mem' = [mem EXCEPT ![f.self] = x.obj]
                 /\ Goes(th, [f EXCEPT !.at = "unlock"])
    /\ UNCHANGED <<build, buf, ub, kids, lock>>

\* offset = _ABYSS_ROUND_UP(offset + size, ABYSS_DATA_ALIGN); count++;
ThStore(th) ==
    /\ ~ub
    /\ pc[th] # <<>>
    /\ LET f == Top(th) IN
         /\ f.at = "store"
         /\ mem' = [mem EXCEPT ![f.self] = f.obj]
         /\ Goes(th, [f EXCEPT !.at = "unlock", !.obj = 0])
    /\ UNCHANGED <<build, buf, ub, kids, lock>>

\* pthread_mutex_destroy(&self->lock): all of the destroy of an Arena or a
\* Surge, and the last step of abyss_totem_destroy.  Destroying a mutex that
\* is locked, or one that is destroyed already, is undefined.
ThDestroy(th) ==
    /\ ~ub
    /\ pc[th] # <<>>
    /\ LET f == Top(th) IN
         /\ f.at = "destroy"
         /\ f.fn \in LeafDestroyFns \cup {"abyss_totem_destroy"}
         /\ IF lock[f.self] = 0
            THEN /\ lock' = [lock EXCEPT ![f.self] = MutexDestroyed]
                 /\ Returns(th, 0)
                 /\ UNCHANGED ub
            ELSE /\ ub' = TRUE
                 /\ UNCHANGED <<lock, pc, ret, log, script>>
    /\ UNCHANGED <<build, buf, mem, kids>>

\* The body of push and of pop, the Totem's lock taken.
ThPushPop(th) ==
    /\ ~ub
    /\ pc[th] # <<>>
    /\ LET f == Top(th)
           r == IF f.fn = "abyss_totem_push"
                THEN abyss_totem_push(build, mem[f.self], f.arg, mem[f.arg].type)
                ELSE abyss_totem_pop(build, mem[f.self], f.arg)
       IN
         /\ f.at = "body"
         /\ f.fn \in {"abyss_totem_push", "abyss_totem_pop"}
         /\ mem' = [mem EXCEPT ![f.self] = r.obj]
         /\ ub' = r.ub
         /\ Goes(th, [f EXCEPT !.at = "unlock", !.res = r.ptr])
    /\ UNCHANGED <<build, buf, kids, lock>>

\* One turn of the for loop of a Totem call, the Totem's lock taken: the loop
\* ends, or the child in slot i is called (a free: if it contains the pointer).
ThTotemLoop(th) ==
    /\ ~ub
    /\ pc[th] # <<>>
    /\ LET f == Top(th)
           h == mem[f.self]
       IN
         /\ f.at = "loop"
         /\ IF f.i < 0
            THEN Goes(th, [f EXCEPT !.at = "unlock"]) /\ UNCHANGED ub
            ELSE IF ~InArray(h, f.i)
            THEN ub' = TRUE /\ UNCHANGED <<pc, ret, log, script>>
            ELSE
              LET slot == Slot(h, f.i)
                  c == slot.ptr
                  isLeaf == slot.type \in {ABYSS_ARENA_T, ABYSS_SURGE_T}
                  has == IF slot.type = ABYSS_ARENA_T
                         THEN _abyss_arena_contains(build, c, mem[c], f.arg)
                         ELSE _abyss_surge_contains(build, c, mem[c], f.arg)
                  arg == IF f.fn = "_abyss_totem_free" /\ isLeaf
                         THEN abyss_handle_get_hdl(build, c, f.arg)
                         ELSE f.arg
              IN  /\ UNCHANGED ub
                  /\ IF slot.type \notin {ABYSS_ARENA_T, ABYSS_SURGE_T, ABYSS_TOTEM_T}
                     THEN IF f.fn = "abyss_totem_alloc" /\ abyss_handle_is_NULL(f.res)
                          THEN Goes(th, [f EXCEPT !.at = "unlock"])
                          ELSE Goes(th, [f EXCEPT !.i = @ - 1])
                     ELSE IF f.fn = "_abyss_totem_free" /\ isLeaf /\ ~has
                     THEN Goes(th, [f EXCEPT !.i = @ - 1])
                     ELSE /\ pc' = [pc EXCEPT ![th] = Append(@,
                                      Frame(ChildFn(f.fn, slot.type), c, arg,
                                            FirstStep(ChildFn(f.fn, slot.type))))]
                          /\ UNCHANGED <<ret, log, script>>
    /\ UNCHANGED <<build, buf, mem, kids, lock>>

\* sizeof of the header of an allocator of the given type, under build b.
SizeofIn(b, type) ==
    CASE type = ABYSS_ARENA_T -> sizeof_Abyss_Arena(b)
      [] type = ABYSS_SURGE_T -> sizeof_Abyss_Surge(b)
      [] type = ABYSS_TOTEM_T -> sizeof_Abyss_Totem(b)

\* Some thread is inside a push.
PushPending == \E u \in Threads : \E k \in 1 .. Len(pc[u]) : pc[u][k].fn = "abyss_totem_push"

\* The calls a thread may make on the allocator at a: alloc of nothing or of
\* one aligned block, free of null and of the first block, reset, push of an
\* allocator that is in no Totem and closes no cycle (the Totem at TotemBase
\* is never made a child), pop of the child at head.
CallsOn(a) ==
    CASE mem[a].type = ABYSS_ARENA_T ->
           {<<"abyss_arena_alloc", a, n>> : n \in TotemAllocSizes}
           \cup {<<"abyss_arena_free", a, p>> :
                   p \in {NULL, a + SizeofIn(build, ABYSS_ARENA_T)}}
           \cup {<<"abyss_arena_reset", a, 0>>}
      [] mem[a].type = ABYSS_SURGE_T ->
           {<<"abyss_surge_alloc", a, n>> : n \in TotemAllocSizes}
           \cup {<<"abyss_surge_free", a, p>> :
                   p \in {NULL, a + SizeofIn(build, ABYSS_SURGE_T)}}
           \cup {<<"abyss_surge_reset", a, 0>>}
      [] mem[a].type = ABYSS_TOTEM_T ->
           {<<"abyss_totem_alloc", a, n>> : n \in TotemAllocSizes}
           \cup {<<"_abyss_totem_free", a, c + SizeofIn(build, mem[c].type)>> :
                   c \in {l \in DOMAIN mem : IsLeaf(mem[l])}}
           \cup {<<"abyss_totem_reset", a, 0>>}
           \cup {<<"abyss_totem_pop", a, -1>>}
           \cup {<<"abyss_totem_push", a, c>> :
                   c \in {d \in DOMAIN mem \ {a, TotemBase} :
                            /\ ~PushPending
                            /\ \A u \in Totems : d \notin Children(mem, u)
                            /\ mem[d].type = ABYSS_TOTEM_T
                               => a \notin Descendants(mem, d)}}

\* A thread that is in no call makes one.  The caller's list of allocs is
\* given up once a call is made that is not an alloc(n > 0), push or pop.
ThCall(th, call) ==
    /\ ~ub
    /\ pc[th] = <<>>
    /\ LET fn == call[1]
           tracked == \/ fn \in {"abyss_totem_push", "abyss_totem_pop"}
                      \/ /\ fn \in LeafAllocFns \cup {"abyss_totem_alloc"}
                         /\ call[3] > 0
       IN  /\ pc' = [pc EXCEPT ![th] = <<Frame(fn, call[2], call[3], FirstStep(fn))>>]
           /\ script' = IF tracked THEN script ELSE "off"
           /\ log' = IF tracked THEN log ELSE <<>>
    /\ UNCHANGED <<build, buf, mem, ret, ub, kids, lock>>

(***************************************************************************)
(* SpecLock: the thread-safe build.  One or two threads call two Totems on *)
(* buffers that hold one slot, the second of which may be nested in the    *)
(* first, and an Arena or a Surge with room for one block, which may be    *)
(* the child of either.                                                    *)
(* Pointer mode, default alignment, safety checks on.                      *)
(***************************************************************************)
ThreadSets == {{1}, {1, 2}}

NestedBase == TotemBase + 128
LockLeafBase == TotemBase + 256

InitLock ==
    /\ build = [align |-> ABYSS_DATA_ALIGN, handle_mode |-> FALSE,
                unsafe_mode |-> FALSE, thread_safe_mode |-> TRUE]
    /\ \E type \in {ABYSS_ARENA_T, ABYSS_SURGE_T} :
         LET sizeT == TotemRoom(build, 1)
             sizeN == TotemRoom(build, 1)
             sizeL == SizeofIn(build, type) + ABYSS_DATA_ALIGN
         IN  /\ buf = (TotemBase :> sizeT) @@ (NestedBase :> sizeN)
                      @@ (LockLeafBase :> sizeL)
             /\ mem = (TotemBase :> abyss_totem_init(build, sizeT))
                      @@ (NestedBase :> abyss_totem_init(build, sizeN))
                      @@ (LockLeafBase :> LeafInit(build, type, sizeL))
             /\ ret = Ret("init", TotemBase, sizeT, TotemBase, {}, <<>>)
    /\ log = <<>>
    /\ script = "off"
    /\ ub = FALSE
    /\ kids = <<>>
    /\ lock = [a \in {TotemBase, NestedBase, LockLeafBase} |-> 0]
    /\ \E ths \in ThreadSets : pc = [th \in ths |-> <<>>]

NextLock ==
    \/ \E th \in Threads : \E a \in DOMAIN mem : \E call \in CallsOn(a) : ThCall(th, call)
    \/ \E th \in Threads : ThEntry(th)
    \/ \E th \in Threads : ThLock(th)
    \/ \E th \in Threads : ThLeafBody(th)
    \/ \E th \in Threads : ThStore(th)
    \/ \E th \in Threads : ThPushPop(th)
    \/ \E th \in Threads : ThTotemLoop(th)
    \/ \E th \in Threads : ThUnlock(th)

SpecLock == InitLock /\ [][NextLock]_vars

(***************************************************************************)
(* SpecRace: the thread-safe build, one Arena or Surge with room for       *)
(* TotemLeafBlocks blocks, and one or two threads that do nothing but call *)
(* alloc on it, for one block or for two.                                  *)
(***************************************************************************)
RaceCalls ==
    {<<IF mem[LockLeafBase].type = ABYSS_ARENA_T
       THEN "abyss_arena_alloc" ELSE "abyss_surge_alloc",
       LockLeafBase, k * ABYSS_DATA_ALIGN>> : k \in 1 .. 2}

InitRace ==
    /\ build = [align |-> ABYSS_DATA_ALIGN, handle_mode |-> FALSE,
                unsafe_mode |-> FALSE, thread_safe_mode |-> TRUE]
    /\ \E type \in {ABYSS_ARENA_T, ABYSS_SURGE_T} :
         LET sizeL == SizeofIn(build, type) + TotemLeafBlocks * ABYSS_DATA_ALIGN
         IN  /\ buf = (LockLeafBase :> sizeL)
             /\ mem = (LockLeafBase :> LeafInit(build, type, sizeL))
             /\ ret = Ret("init", LockLeafBase, sizeL, LockLeafBase, {}, <<>>)
    /\ log = <<>>
    /\ script = "allocs"
    /\ ub = FALSE
    /\ kids = <<>>
    /\ lock = [a \in {LockLeafBase} |-> 0]
    /\ \E ths \in ThreadSets : pc = [th \in ths |-> <<>>]

NextRace ==
    \/ \E th \in Threads : \E call \in RaceCalls : ThCall(th, call)
    \/ \E th \in Threads : ThLock(th)
    \/ \E th \in Threads : ThLeafBody(th)
    \/ \E th \in Threads : ThStore(th)
    \/ \E th \in Threads : ThUnlock(th)

SpecRace == InitRace /\ [][NextRace]_vars

(***************************************************************************)
(* Vocabulary of the thread-safe properties.                               *)
(***************************************************************************)
\* The thread is in no call.
Idle(th) == pc[th] = <<>>

\* The thread is at a pthread_mutex_lock whose mutex is held.
Waits(th) == ~Idle(th) /\ Top(th).at = "lock" /\ lock[Top(th).self] # 0

\* The thread whose release the waiting thread th needs.
Holder(th) == lock[Top(th).self]

(***************************************************************************)
(* C11.  In thread-safe mode every call, when it returns, has released the *)
(* lock of the instance it was called on: after a success, a capacity      *)
(* failure, a zero-size alloc, a null handle and an invalid free alike.    *)
(***************************************************************************)
C11_ReturnsWithLockReleased ==
    [][\A th \in Threads :
         (~Idle(th) /\ Len(pc'[th]) < Len(pc[th]))
         => lock'[Top(th).self] # th]_vars

(***************************************************************************)
(* C12.  In thread-safe mode, with a single calling thread, no call ever   *)
(* waits on a lock: every pthread_mutex_lock the thread reaches finds the  *)
(* mutex free, so every call sequence runs to its end.                     *)
(***************************************************************************)
C12_SingleThreadNeverWaits ==
    Cardinality(Threads) = 1 => \A th \in Threads : ~Waits(th)

(***************************************************************************)
(* C13.  In thread-safe mode, with an acyclic child graph, threads that    *)
(* call the Totems and their children concurrently never deadlock: no      *)
(* thread waits for a lock whose holder waits for a lock the first holds.  *)
(***************************************************************************)
C13_NoDeadlock ==
    \A t1, t2 \in Threads :
      ~(/\ t1 # t2
        /\ Waits(t1) /\ Holder(t1) = t2
        /\ Waits(t2) /\ Holder(t2) = t1)

\* The alloc of the Arena or Surge at a, applied to the header hdr.
LeafAlloc(a, hdr, size) ==
    IF hdr.type = ABYSS_ARENA_T
    THEN abyss_arena_alloc(build, a, hdr, size)
    ELSE abyss_surge_alloc(build, a, hdr, size)

\* Made one after the other in some order, starting from the header hdr, the
\* logged allocs with index in S return what they returned and leave the
\* header that is in memory.
RECURSIVE SomeOrderGives(_, _, _)
SomeOrderGives(a, hdr, S) ==
    IF S = {}
    THEN hdr = mem[a]
    ELSE \E i \in S :
           LET x == LeafAlloc(a, hdr, log[i].size)
           IN  x.hdl = log[i].hdl /\ SomeOrderGives(a, x.obj, S \ {i})

(***************************************************************************)
(* C14.  In thread-safe mode, when threads call alloc(n), n > 0, on one    *)
(* Arena or Surge concurrently, the blocks returned do not overlap, and    *)
(* once the calls have returned, offset and count are those some           *)
(* sequential order of the same calls gives: no update is lost.            *)
(***************************************************************************)
C14_ConcurrentAllocsSerialize ==
    script = "allocs" =>
      \A a \in Leaves :
        LET mine == {i \in 1 .. Len(log) : log[i].a = a} IN
          /\ \A i, j \in mine :
               (/\ i < j
                /\ ~abyss_handle_is_NULL(log[i].hdl)
                /\ ~abyss_handle_is_NULL(log[j].hdl))
               => \/ log[i].hdl + log[i].size <= log[j].hdl
                  \/ log[j].hdl + log[j].size <= log[i].hdl
          /\ (\A th \in Threads : Idle(th)) => SomeOrderGives(a, AtInit(a), mine)

\* Two allocs of different threads on one allocator have both returned a
\* block, the first while the other thread was inside its call.
C14_Witness ==
    /\ script = "allocs"
    /\ \A th \in Threads : Idle(th)
    /\ \E i, j \in 1 .. Len(log) :
         /\ i < j
         /\ log[i].a = log[j].a
         /\ log[i].th # log[j].th
         /\ log[j].th \in log[i].during
         /\ ~abyss_handle_is_NULL(log[i].hdl)
         /\ ~abyss_handle_is_NULL(log[j].hdl)

(***************************************************************************)
(* SpecStack: a Totem in the default build, on a buffer of                 *)
(* ABYSS_TOTEM_SIZE(StackCap) bytes or on one that holds StackCap slots,   *)
(* and StackCap + 1 allocators, Arenas and Surges in turn, that the caller *)
(* pushes on it and pops from it, at every index from -(StackCap + 2) to   *)
(* StackCap + 1.                                                           *)
(***************************************************************************)
StackCap == 3

StackChild(k) == LeafBase + 64 * k

StackType(k) == IF k % 2 = 1 THEN ABYSS_ARENA_T ELSE ABYSS_SURGE_T

InitStack ==
    /\ build = [align |-> ABYSS_DATA_ALIGN, handle_mode |-> FALSE,
                unsafe_mode |-> FALSE, thread_safe_mode |-> FALSE]
    /\ \E sizeT \in {ABYSS_TOTEM_SIZE(StackCap), TotemRoom(build, StackCap)} :
       LET ks == 1 .. StackCap + 1
       IN  /\ buf = [a \in {TotemBase} \cup {StackChild(k) : k \in ks} |->
                       IF a = TotemBase
                       THEN sizeT
                       ELSE LeafBufSize(StackType(CHOOSE k \in ks : StackChild(k) = a))]
           /\ mem = [a \in {TotemBase} \cup {StackChild(k) : k \in ks} |->
                       IF a = TotemBase
                       THEN abyss_totem_init(build, sizeT)
                       ELSE LET k == CHOOSE k \in ks : StackChild(k) = a
                            IN  LeafInit(build, StackType(k), LeafBufSize(StackType(k)))]
           /\ ret = Ret("init", TotemBase, sizeT, TotemBase, {}, <<>>)
    /\ log = <<>>
    /\ script = "off"
    /\ ub = FALSE
    /\ kids = (TotemBase :> <<>>)
    /\ lock = <<>>
    /\ pc = <<>>

\* The Totem holds the children the caller counts on it.  A caller that has
\* been handed a child it did not hold, or has lost one, makes no more calls.
InStep(t) ==
    /\ Count(mem, t) = Len(kids[t])
    /\ \A k \in 1 .. Len(kids[t]) : Child(mem, t, k - 1) = kids[t][k]

NextStack ==
    \/ \E t \in Totems, c \in DOMAIN mem : InStep(t) /\ TotemPush(t, c)
    \/ \E t \in Totems : \E indx \in -(StackCap + 2) .. (StackCap + 1) :
         InStep(t) /\ TotemPop(t, indx)

SpecStack == InitStack /\ [][NextStack]_vars

(***************************************************************************)
(* Vocabulary of the push and pop properties.                              *)
(***************************************************************************)
\* The entries of slots 0 .. head of t, lowest slot first.
ChildSeq(m, t) == [k \in 1 .. Count(m, t) |-> Slot(m[t], k - 1)]

\* The sequence l without its k-th element.
Without(l, k) == SubSeq(l, 1, k - 1) \o SubSeq(l, k + 1, Len(l))

\* The slot a pop of index indx on t addresses: indx, or head + indx + 1.
Resolved(t, indx) == IF indx < 0 THEN mem[t].head + indx + 1 ELSE indx

\* The call made by this step was a push on t, a pop on t.
IsPush(t) == ret'.op = "push" /\ ret'.a = t
IsPop(t) == ret'.op = "pop" /\ ret'.a = t

(***************************************************************************)
(* C15.  A push on a Totem that holds fewer children than its capacity     *)
(* succeeds: it returns the pushed child, which is then the child at head. *)
(* A push on a Totem that holds capacity children returns null and leaves  *)
(* head and every entry unchanged.  So the first c pushes on a Totem of    *)
(* capacity c succeed and the next fails.                                  *)
(***************************************************************************)
C15_PushUpToCapacity ==
    [][\A t \in Totems :
         IsPush(t) =>
           IF Count(mem, t) < mem[t].capacity
           THEN /\ ~ub'
                /\ ret'.hdl = ret'.arg
                /\ Count(mem', t) = Count(mem, t) + 1
                /\ Child(mem', t, mem'[t].head) = ret'.arg
           ELSE /\ ret'.hdl = NULL
                /\ mem'[t] = mem[t]]_vars

(***************************************************************************)
(* C16.  A pop whose index, a negative one resolved as head + index + 1,   *)
(* lies outside 0 .. head returns null and leaves head and every entry     *)
(* unchanged.                                                              *)
(***************************************************************************)
C16_PopOutsideIsRejected ==
    [][\A t \in Totems :
         (/\ IsPop(t)
          /\ ~ub'
          /\ Resolved(t, ret'.arg) \notin 0 .. Count(mem, t) - 1)
         => /\ ret'.hdl = NULL
            /\ mem'[t] = mem[t]]_vars

(***************************************************************************)
(* C17.  In every state, a pop with a negative index i that resolves      *)
(* inside 0 .. head, here -1 or -2, whatever head is from 0 to 65534,      *)
(* returns the child of slot head + i + 1 and its type tag; with index -1  *)
(* that is the child at head, and the children below it stay as they are:  *)
(* after push(A); push(B); pop(-1) the Totem holds A alone.                *)
(***************************************************************************)
C17_NegativeIndexCountsFromHead ==
    \A t \in Totems :
      \A indx \in {-1, -2} :
        LET head == mem[t].head
            slot == head + indx + 1
            r == abyss_totem_pop(build, mem[t], indx)
        IN  (head \in 0 .. (USHORT_MOD - 2) /\ slot \in 0 .. head)
            => /\ ~r.ub
               /\ r.ptr = Slot(mem[t], slot).ptr
               /\ r.type = Slot(mem[t], slot).type
               /\ indx = -1 =>
                    ChildSeq([mem EXCEPT ![t] = r.obj], t)
                      = SubSeq(ChildSeq(mem, t), 1, head)

(***************************************************************************)
(* C18.  In every state, a pop at an index, here 0, 1 or -1, that resolves *)
(* to a slot i inside 0 .. head returns the child of slot i and its type   *)
(* tag, moves the entries of slots i+1 .. head one slot down, in order and *)
(* each pointer with its tag, and takes one off head.                      *)
(***************************************************************************)
C18_PopShiftsDown ==
    \A t \in Totems :
      \A indx \in {0, 1, -1} :
        LET i == Resolved(t, indx)
            r == abyss_totem_pop(build, mem[t], indx)
            after == [mem EXCEPT ![t] = r.obj]
        IN  i \in 0 .. Count(mem, t) - 1
            => /\ ~r.ub
               /\ r.ptr = Slot(mem[t], i).ptr
               /\ r.type = Slot(mem[t], i).type
               /\ ChildSeq(after, t) = Without(ChildSeq(mem, t), i + 1)
               /\ Count(after, t) = Count(mem, t) - 1

(***************************************************************************)
(* C19.  After any sequence of push and pop calls, with N the number of    *)
(* children pushed and not yet returned by a pop: head = N - 1,            *)
(* 0 <= N <= capacity, and slots 0 .. head hold those children in push     *)
(* order.                                                                  *)
(***************************************************************************)
C19_HeadCountsChildren ==
    \A t \in Totems :
      (~ub /\ t \in DOMAIN kids) =>
        /\ Count(mem, t) = Len(kids[t])
        /\ Len(kids[t]) <= mem[t].capacity
        /\ \A k \in 1 .. Len(kids[t]) : k <= Count(mem, t) => Child(mem, t, k - 1) = kids[t][k]

(***************************************************************************)
(* C20.  In the default build a Totem free(ptr) emits the Totem's          *)
(* invalid-free diagnostic exactly when no child, at any depth, claims     *)
(* ptr; when a child claims ptr and its free is called, the Totem emits    *)
(* none.                                                                   *)
(***************************************************************************)
\* The leaf at a finds ptr inside its used range.
Claims(a, ptr) ==
    CASE mem[a].type = ABYSS_ARENA_T -> _abyss_arena_contains(build, a, mem[a], ptr)
      [] mem[a].type = ABYSS_SURGE_T -> _abyss_surge_contains(build, a, mem[a], ptr)
      [] OTHER -> FALSE

C20_DiagnosticWhenUnclaimed ==
    [][\A t \in Totems :
         (ret'.op = "totem_free" /\ ret'.a = t /\ ~ub' /\ ~build.unsafe_mode)
         => (WARN_TOTEM_FREE \in ret'.warn
               <=> ~\E a \in Descendants(mem, t) : Claims(a, ret'.arg))]_vars

(***************************************************************************)
(* C21.  In the default build a free on an Arena or Surge with a non-null  *)
(* handle reports the invalid-free diagnostic exactly when the handle's    *)
(* address lies outside [start, start + offset) of that allocator, and     *)
(* never for a handle the caller holds from an allocation made since the   *)
(* last reset.                                                             *)
(***************************************************************************)
\* The call made by this step was a free on the Arena or Surge at a.
IsFree(a) == ret'.op = "free" /\ ret'.a = a

\* The first byte past the header of the allocator at a.
Start(a) == a + Sizeof(mem[a].type)

C21_InvalidFreeIffOutOfRange ==
    [][\A a \in Leaves :
         LET ptr == abyss_handle_get_ptr(build, a, ret'.arg)
         IN  (IsFree(a) /\ ~build.unsafe_mode /\ ~abyss_handle_is_NULL(ret'.arg))
             => /\ WARN_INVALID_FREE \in ret'.warn
                     <=> ~(Start(a) <= ptr /\ ptr < Start(a) + mem[a].offset)
                /\ Holds(a, ret'.arg) => WARN_INVALID_FREE \notin ret'.warn]_vars

(***************************************************************************)
(* C22.  In the default build a Surge free with a handle inside            *)
(* [start, start + offset) while count = 0 reports the double-free         *)
(* diagnostic and leaves count and offset unchanged; a Surge free with a   *)
(* handle outside that range leaves them unchanged too; count never goes   *)
(* below 0.                                                                *)
(***************************************************************************)
C22_SurgeFreeRejections ==
    [][\A a \in Surges :
         LET ptr == abyss_handle_get_ptr(build, a, ret'.arg)
             inrange == Start(a) <= ptr /\ ptr < Start(a) + mem[a].offset
         IN  (IsFree(a) /\ ~build.unsafe_mode /\ ~abyss_handle_is_NULL(ret'.arg))
             => /\ (inrange /\ mem[a].count = 0)
                     => WARN_DOUBLE_FREE \in ret'.warn /\ mem'[a] = mem[a]
                /\ ~inrange => mem'[a] = mem[a]
                /\ mem'[a].count \in {mem[a].count, mem[a].count - 1}
                /\ mem'[a].count >= 0]_vars

(***************************************************************************)
(* C23.  An Arena free never changes the Arena: whatever the handle (null, *)
(* in range, out of range, already freed), offset and size are after the   *)
(* call what they were before it.                                          *)
(***************************************************************************)
C23_ArenaFreeChangesNothing ==
    [][\A a \in Leaves :
         (IsFree(a) /\ mem[a].type = ABYSS_ARENA_T)
         => /\ mem'[a].offset = mem[a].offset
            /\ mem'[a].size = mem[a].size]_vars

\* An Arena with a block allocated has been handed that block in a free that
\* raised no diagnostic.
C23_Witness ==
    \E a \in Leaves :
      /\ mem[a].type = ABYSS_ARENA_T
      /\ ret.op = "free" /\ ret.a = a
      /\ ~abyss_handle_is_NULL(ret.arg)
      /\ ret.warn = {}
      /\ mem[a].offset > AtInit(a).offset

(***************************************************************************)
(* SpecNest: the default build, two Totems on buffers of TotemCap slots,   *)
(* an Arena and a Surge with room for TotemLeafBlocks blocks each.  The    *)
(* caller pushes any of them on either Totem as long as no cycle arises,   *)
(* pops the child at head, allocates one block from the Arena and from the *)
(* Surge, and resets the Totems.                                           *)
(***************************************************************************)
NestArena == LockLeafBase
NestSurge == LockLeafBase + 128

InitNest ==
    /\ build = [align |-> ABYSS_DATA_ALIGN, handle_mode |-> FALSE,
                unsafe_mode |-> FALSE, thread_safe_mode |-> FALSE]
    /\ LET sizeT == TotemRoom(build, TotemCap)
           sizeA == LeafBufSize(ABYSS_ARENA_T)
           sizeS == LeafBufSize(ABYSS_SURGE_T)
       IN  /\ buf = (TotemBase :> sizeT) @@ (NestedBase :> sizeT)
                    @@ (NestArena :> sizeA) @@ (NestSurge :> sizeS)
           /\ mem = (TotemBase :> abyss_totem_init(build, sizeT))
                    @@ (NestedBase :> abyss_totem_init(build, sizeT))
                    @@ (NestArena :> abyss_arena_init(build, sizeA))
                    @@ (NestSurge :> abyss_surge_init(build, sizeS))
           /\ ret = Ret("init", TotemBase, sizeT, TotemBase, {}, <<>>)
    /\ log = <<>>
    /\ script = "off"
    /\ ub = FALSE
    /\ kids = (TotemBase :> <<>>) @@ (NestedBase :> <<>>)
    /\ lock = <<>>
    /\ pc = <<>>

NextNest ==
    \/ \E a \in DOMAIN mem : ArenaAlloc(a, ABYSS_DATA_ALIGN)
    \/ \E a \in DOMAIN mem : SurgeAlloc(a, ABYSS_DATA_ALIGN)
    \/ \E t \in Totems, c \in DOMAIN mem : TotemPush(t, c)
    \/ \E t \in Totems : TotemPop(t, -1)
    \/ \E t \in Totems : TotemReset(t)

SpecNest == InitNest /\ [][NextNest]_vars

\* The call made by this step was a reset on the Totem t.
IsTotemReset(t) == ret'.op = "totem_reset" /\ ret'.a = t

\* The Arenas and Surges reachable from the Totem t.
LeavesUnder(m, t) == {a \in Descendants(m, t) : IsLeaf(m[a])}

(***************************************************************************)
(* C24.  After a reset on an acyclic Totem every Arena and Surge reachable *)
(* through it, nested Totems included, has its offset at the aligned start *)
(* init gave it and, for a Surge, count 0, while head, capacity and the    *)
(* child entries of every Totem are what they were.                        *)
(***************************************************************************)
C24_TotemResetReachesAll ==
    [][\A t \in Totems :
         IsTotemReset(t)
         => /\ ~ub'
            /\ \A a \in LeavesUnder(mem, t) :
                 /\ mem'[a].offset = AtInit(a).offset
                 /\ mem[a].type = ABYSS_SURGE_T => mem'[a].count = 0
            /\ \A u \in Totems : mem'[u] = mem[u]]_vars

(***************************************************************************)
(* C25.  For an Arena, a Surge and a Totem in any reachable state, a reset *)
(* called right after a reset leaves the offset and count, for a Totem     *)
(* those of every Arena and Surge reachable from it, that the first reset  *)
(* left.                                                                   *)
(***************************************************************************)
C25_ResetTwiceIsResetOnce ==
    [][/\ \A a \in Leaves :
            (ret.op = "reset" /\ ret.a = a /\ ret'.op = "reset" /\ ret'.a = a)
            => mem'[a] = mem[a]
       /\ \A t \in Totems :
            IsTotemReset(t)
            => /\ ~ub'
               /\ (ret.op = "totem_reset" /\ ret.a = t)
                    => \A a \in LeavesUnder(mem, t) : mem'[a] = mem[a]]_vars

(***************************************************************************)
(* C26.  For an Arena and for a Surge, on a buffer of any size >= the      *)
(* allocator's header size, init succeeds and leaves the cursor at the     *)
(* allocator's aligned header size from the start of the buffer, with      *)
(* available space the buffer size minus that aligned header size.         *)
(***************************************************************************)
C26_InitAtAlignedHeader ==
    ret.op = "init" /\ ret.a = LeafBase =>
      /\ ret.hdl = NULL => \E type \in {ABYSS_ARENA_T, ABYSS_SURGE_T} : ret.arg < Sizeof(type)
      /\ \A a \in Leaves :
           /\ Sizeof(mem[a].type) + mem[a].offset
                = AlignUp(Sizeof(mem[a].type), build.align)
           /\ USub(mem[a].size, mem[a].offset) = Available(a)

(***************************************************************************)
(* C27.  In offset mode no alloc that finds room, a successful alloc(n),   *)
(* n > 0, or the zero-size peek in any state, returns offset 0: a handle   *)
(* equal to the null sentinel means that the allocation failed.            *)
(***************************************************************************)
\* The call made by this step was an alloc on the Arena or Surge at a.
IsAlloc(a) == ret'.op = "alloc" /\ ret'.a = a

C27_NullOnlyOnFailure ==
    [][\A a \in Leaves :
         (/\ build.handle_mode
          /\ IsAlloc(a)
          /\ ret'.arg = 0 \/ USub(mem[a].size, mem[a].offset) >= ret'.arg)
         => ~abyss_handle_is_NULL(ret'.hdl)]_vars

(***************************************************************************)
(* C28.  For every sequence of init, alloc, free and reset calls on an     *)
(* Arena or Surge, the handle an alloc returns in offset mode, resolved    *)
(* with abyss_handle_get_ptr against the allocator's base, is the address  *)
(* the same call returns in address mode, null for null, for non-zero and  *)
(* for zero sizes, and the header is the same in both modes after every    *)
(* call.                                                                   *)
(***************************************************************************)
\* The build with ABYSS_HANDLE_MODE defined (hm) or not.
InMode(hm) == [build EXCEPT !.handle_mode = hm]

\* alloc(size) on the header hdr at a, in the build b.
AllocIn(b, a, hdr, size) ==
    IF hdr.type = ABYSS_ARENA_T
    THEN abyss_arena_alloc(b, a, hdr, size)
    ELSE abyss_surge_alloc(b, a, hdr, size)

\* free(hdl) on the header hdr at a, in the build b.
FreeIn(b, a, hdr, hdl) ==
    IF hdr.type = ABYSS_ARENA_T
    THEN abyss_arena_free(b, a, hdr, hdl)
    ELSE abyss_surge_free(b, a, hdr, hdl)

C28_ModesAgree ==
    [][\A a \in Leaves :
         /\ IsAlloc(a) =>
              LET off == AllocIn(InMode(TRUE), a, mem[a], ret'.arg)
                  adr == AllocIn(InMode(FALSE), a, mem[a], ret'.arg)
              IN  /\ abyss_handle_get_ptr(InMode(TRUE), a, off.hdl) = adr.hdl
                  /\ off.obj = adr.obj
         /\ IsFree(a) =>
              LET ptr == abyss_handle_get_ptr(build, a, ret'.arg)
                  off == FreeIn(InMode(TRUE), a, mem[a],
                                abyss_handle_get_hdl(InMode(TRUE), a, ptr))
                  adr == FreeIn(InMode(FALSE), a, mem[a], ptr)
              IN  off = adr]_vars

(***************************************************************************)
(* C29.  In offset mode abyss_handle_get_ptr(base, abyss_handle_get_hdl(   *)
(* base, ptr)) = ptr for every ptr inside the managed region of the        *)
(* allocator at base, and the null pointer and offset 0 map to each other. *)
(***************************************************************************)
\* The addresses of the buffer of the allocator at a that follow its header.
Managed(a) == Start(a) .. (a + buf[a] - 1)

C29_HandleRoundTrip ==
    build.handle_mode =>
      \A a \in Leaves :
        /\ \A ptr \in Managed(a) :
             abyss_handle_get_ptr(build, a, abyss_handle_get_hdl(build, a, ptr)) = ptr
        /\ abyss_handle_get_hdl(build, a, NULL) = 0
        /\ abyss_handle_get_ptr(build, a, 0) = NULL

\* A free has been handed the offset of an address inside the first block
\* and has resolved it to that address.
C29_Witness ==
    /\ build.handle_mode
    /\ \E a \in Leaves :
         /\ ret.op = "free" /\ ret.a = a
         /\ ret.arg = abyss_handle_get_hdl(build, a, Start(a) + 4)
         /\ Start(a) + 4 \in Managed(a)
         /\ abyss_handle_get_ptr(build, a, ret.arg) = Start(a) + 4

(***************************************************************************)
(* SpecDestroy: the thread-safe build, one thread.  Two Totems on buffers  *)
(* of TotemCap slots, an Arena and a Surge with room for one block; the    *)
(* caller pushes them on the Totems without closing a cycle, allocates     *)
(* nothing or one block from the Arena and the Surge, and destroys a       *)
(* Totem, after which it calls nothing more.                               *)
(***************************************************************************)
InitDestroy ==
    /\ build = [align |-> ABYSS_DATA_ALIGN, handle_mode |-> FALSE,
                unsafe_mode |-> FALSE, thread_safe_mode |-> TRUE]
    /\ LET sizeT == TotemRoom(build, TotemCap)
           sizeA == SizeofIn(build, ABYSS_ARENA_T) + ABYSS_DATA_ALIGN
           sizeS == SizeofIn(build, ABYSS_SURGE_T) + ABYSS_DATA_ALIGN
       IN  /\ buf = (TotemBase :> sizeT) @@ (NestedBase :> sizeT)
                    @@ (NestArena :> sizeA) @@ (NestSurge :> sizeS)
           /\ mem = (TotemBase :> abyss_totem_init(build, sizeT))
                    @@ (NestedBase :> abyss_totem_init(build, sizeT))
                    @@ (NestArena :> abyss_arena_init(build, sizeA))
                    @@ (NestSurge :> abyss_surge_init(build, sizeS))
           /\ ret = Ret("init", TotemBase, sizeT, TotemBase, {}, <<>>)
    /\ log = <<>>
    /\ script = "off"
    /\ ub = FALSE
    /\ kids = <<>>
    /\ lock = [a \in {TotemBase, NestedBase, NestArena, NestSurge} |-> 0]
    /\ pc = [th \in {1} |-> <<>>]

\* No mutex has been destroyed.
NoneDestroyed == \A a \in DOMAIN lock : lock[a] # MutexDestroyed

DestroyCalls(a) ==
    CASE mem[a].type = ABYSS_ARENA_T ->
           {<<"abyss_arena_alloc", a, n>> : n \in TotemAllocSizes}
      [] mem[a].type = ABYSS_SURGE_T ->
           {<<"abyss_surge_alloc", a, n>> : n \in TotemAllocSizes}
      [] mem[a].type = ABYSS_TOTEM_T ->
           {<<"abyss_totem_destroy", a, 0>>}
           \cup {<<"abyss_totem_push", a, c>> :
                   c \in {d \in DOMAIN mem \ {a, TotemBase} :
                            /\ \A u \in Totems : d \notin Children(mem, u)
                            /\ mem[d].type = ABYSS_TOTEM_T
                               => a \notin Descendants(mem, d)}}

NextDestroy ==
    \/ \E th \in Threads : \E a \in DOMAIN mem : \E call \in DestroyCalls(a) :
         NoneDestroyed /\ ThCall(th, call)
    \/ \E th \in Threads : ThLock(th)
    \/ \E th \in Threads : ThLeafBody(th)
    \/ \E th \in Threads : ThStore(th)
    \/ \E th \in Threads : ThPushPop(th)
    \/ \E th \in Threads : ThTotemLoop(th)
    \/ \E th \in Threads : ThDestroy(th)
    \/ \E th \in Threads : ThUnlock(th)

SpecDestroy == InitDestroy /\ [][NextDestroy]_vars

\* The thread is inside a call of abyss_totem_destroy that it made itself.
InDestroy(th) == pc[th] # <<>> /\ pc[th][1].fn = "abyss_totem_destroy"

(***************************************************************************)
(* C30.  In thread-safe mode a destroy on an acyclic Totem destroys the    *)
(* Totem's own lock and the lock of every Arena, Surge and nested Totem    *)
(* reachable from it, returns with no lock left held, and changes no head, *)
(* child entry, offset or count.                                           *)
(***************************************************************************)
C30_DestroyReachesEveryLock ==
    [][\A th \in Threads :
         InDestroy(th) =>
           LET t == pc[th][1].self
               reached == {t} \cup Descendants(mem, t)
           IN  /\ ~ub'
               /\ mem' = mem
               /\ \A a \in DOMAIN lock \ reached : lock'[a] = lock[a]
               /\ pc'[th] = <<>> =>
                    \A a \in reached : lock'[a] = MutexDestroyed]_vars

(***************************************************************************)
(* C31.  _abyss_arena_contains and _abyss_surge_contains return true       *)
(* exactly for the addresses p with buf <= p < buf + offset, and false for *)
(* every address below buf or at or above buf + offset.                    *)
(***************************************************************************)
\* _abyss_arena_contains / _abyss_surge_contains of the allocator at a.
Contains(a, p) ==
    IF mem[a].type = ABYSS_ARENA_T
    THEN _abyss_arena_contains(build, a, mem[a], p)
    ELSE _abyss_surge_contains(build, a, mem[a], p)

\* The addresses from the start of the caller's buffer to one past its end.
Probes(a) == a .. (a + buf[a])

C31_ContainsIsTheUsedRange ==
    \A a \in Leaves : \A p \in Probes(a) :
      Contains(a, p) <=> (Start(a) <= p /\ p < Start(a) + mem[a].offset)

(***************************************************************************)
(* C32.  For every buffer size and every sequence of init, alloc, free and *)
(* reset on an Arena or Surge, the block [h, h + n) of each successful     *)
(* alloc(n), n > 0, lies inside the caller's buffer and above the header.  *)
(***************************************************************************)
C32_BlocksInsideBuffer ==
    [][\A a \in Leaves :
         LET h == abyss_handle_get_ptr(build, a, ret'.hdl)
         IN  (IsAlloc(a) /\ ret'.arg > 0 /\ ~abyss_handle_is_NULL(ret'.hdl))
             => /\ Start(a) <= h
                /\ h + ret'.arg <= a + buf[a]]_vars

(***************************************************************************)
(* C33.  For an Arena and a Surge, a reset, and for a Surge the free that  *)
(* takes count to 0, puts the allocator back in exactly the state init     *)
(* produced: the same offset and count 0, so that the allocs that follow   *)
(* return what they return after init.                                     *)
(***************************************************************************)
\* The call made by this step was a reset on the Arena or Surge at a.
IsReset(a) == ret'.op = "reset" /\ ret'.a = a

\* The call made by this step was the free that took the Surge's count to 0.
IsDrain(a) ==
    /\ IsFree(a)
    /\ mem[a].type = ABYSS_SURGE_T
    /\ mem[a].count = 1
    /\ mem'[a].count = 0

C33_ResetRestoresInit ==
    [][\A a \in Leaves :
         (IsReset(a) \/ IsDrain(a))
         => /\ mem'[a] = AtInit(a)
            /\ \A n \in AllocSizes :
                 AllocIn(build, a, mem'[a], n) = AllocIn(build, a, AtInit(a), n)]_vars

(***************************************************************************)
(* C34.  For every power-of-two ABYSS_DATA_ALIGN and a buffer whose base   *)
(* is aligned to it, every handle a successful alloc(n), n > 0, returns on *)
(* an Arena or a Surge, after init and after any reset or drain, lies at a *)
(* multiple of ABYSS_DATA_ALIGN from the buffer base.                      *)
(***************************************************************************)
C34_HandlesAligned ==
    [][\A a \in Leaves :
         (/\ IsAlloc(a) /\ ret'.arg > 0 /\ ~abyss_handle_is_NULL(ret'.hdl)
          /\ a % build.align = 0)
         => (abyss_handle_get_ptr(build, a, ret'.hdl) - a) % build.align = 0]_vars

\* One past the last byte of totem->allocators[i], as an address.
SlotEnd(t, i) == t + sizeof_Abyss_Totem(build) + (i + 1) * SizeofSlot

(***************************************************************************)
(* C35.  The header of a Totem and capacity slots fit in the buffer that   *)
(* abyss_totem_init was given, so every slot a successful push has written *)
(* lies inside that buffer; a buffer of ABYSS_TOTEM_SIZE(c) bytes stores c *)
(* children within bounds.                                                 *)
(***************************************************************************)
C35_SlotsInsideBuffer ==
    \A t \in Totems :
      /\ sizeof_Abyss_Totem(build) + mem[t].capacity * SizeofSlot <= buf[t]
      /\ \A i \in 0 .. Count(mem, t) - 1 : SlotEnd(t, i) <= t + buf[t]

\* The build with ABYSS_UNSAFE_MODE defined (u) or not, all else as in build.
InSafety(u) == [build EXCEPT !.unsafe_mode = u]

(***************************************************************************)
(* C36.  On a valid call sequence the ABYSS_UNSAFE_MODE build and the      *)
(* default build return the same values and reach the same offset and      *)
(* count: after init and a run of successful allocs and of frees of live   *)
(* handles, each alloc and each free of a live handle gives the same       *)
(* result and the same header in both builds.                              *)
(***************************************************************************)
C36_UnsafeBuildAgrees ==
    [][\A a \in Leaves :
         script \in {"allocs", "frees"} =>
           /\ IsAlloc(a) =>
                AllocIn(InSafety(TRUE), a, mem[a], ret'.arg)
                  = AllocIn(InSafety(FALSE), a, mem[a], ret'.arg)
           /\ (IsFree(a) /\ Holds(a, ret'.arg)) =>
                FreeIn(InSafety(TRUE), a, mem[a], ret'.arg).obj
                  = FreeIn(InSafety(FALSE), a, mem[a], ret'.arg).obj]_vars

(***************************************************************************)
(* SpecWide: a Totem in the default build whose head is within WideSpan of *)
(* 2^15, the sign bit of its 16-bit fields.  Its buffer has                *)
(* ABYSS_TOTEM_SIZE(WideSized) bytes: abyss_totem_init records the         *)
(* capacity WideCap, and the buffer holds more than WideCap slots.  The    *)
(* state is the one after init and head + 1 pushes of Arenas the caller    *)
(* calls no more: only their addresses are kept.  Two more allocators, an  *)
(* Arena and a Surge, are the caller's to push, and it pops the first two  *)
(* children and the last while head stays in that range.                   *)
(***************************************************************************)
WideSpan == 2

WideMid == USHORT_MOD \div 2

WideCap == WideMid + WideSpan + 2

\* The number of children the caller sizes the Totem's buffer for.
WideSized == USHORT_MOD + WideCap

\* The address of the Totem's buffer, behind those of all the children.
WideBase == StackChild(USHORT_MOD)

\* The allocator the caller pushed as child number i, before the two it keeps.
WideChild(i) == StackChild(i + 3)

\* The Totem after abyss_totem_init(buf, size) and head + 1 successful pushes
\* of Arenas.
WideTotem(size, head) ==
    LET totem == abyss_totem_init(build, size)
    IN  [totem EXCEPT
           !.head = head,
           !.allocators = [k \in DOMAIN totem.allocators |->
                             IF k - 1 <= head
                             THEN [ptr |-> WideChild(k - 1), type |-> ABYSS_ARENA_T]
                             ELSE UninitSlot] \o <<>>]

InitWide ==
    /\ build = [align |-> ABYSS_DATA_ALIGN, handle_mode |-> FALSE,
                unsafe_mode |-> FALSE, thread_safe_mode |-> FALSE]
    /\ buf = (WideBase :> ABYSS_TOTEM_SIZE(WideSized))
             @@ [a \in {StackChild(1), StackChild(2)} |->
                   LeafBufSize(StackType((a - LeafBase) \div 64))]
    /\ \E head \in (WideMid - WideSpan) .. (WideMid + WideSpan - 1) :
         /\ mem = (WideBase :> WideTotem(buf[WideBase], head))
                  @@ [a \in {StackChild(1), StackChild(2)} |->
                        LET type == StackType((a - LeafBase) \div 64)
                        IN  LeafInit(build, type, LeafBufSize(type))]
         /\ ret = Ret("push", WideBase, WideChild(head), WideChild(head), {}, <<>>)
         /\ kids = (WideBase :> [k \in 1 .. head + 1 |-> WideChild(k - 1)] \o <<>>)
    /\ log = <<>>
    /\ script = "off"
    /\ ub = FALSE
    /\ lock = <<>>
    /\ pc = <<>>

NextWide ==
    \/ \E t \in Totems, c \in DOMAIN mem : TotemPush(t, c)
    \/ \E t \in Totems : \E indx \in {0, 1, mem[t].head, -1} :
         /\ mem[t].head > WideMid - WideSpan
         /\ TotemPop(t, indx)

SpecWide == InitWide /\ [][NextWide]_vars

(***************************************************************************)
(* C37.  A Totem works with any number of children its 16-bit fields can   *)
(* count: in every state, whatever head is, from 0 to 65534, a pop of the  *)
(* first child or of the last, the two ends of the indices 0 .. head,      *)
(* succeeds: it returns the child stored there and head goes down by one.  *)
(***************************************************************************)
C37_PopAtAnyHead ==
    \A t \in Totems :
      mem[t].head \in 0 .. (USHORT_MOD - 2)
      => \A indx \in {0, mem[t].head} :
           LET r == abyss_totem_pop(build, mem[t], indx)
           IN  /\ r.ptr = Slot(mem[t], indx).ptr
               /\ r.ptr # NULL
               /\ r.obj.head = mem[t].head - 1

(***************************************************************************)
(* _abyss_totem_contains.  The result tells what the call returned, found, *)
(* whether it indexed allocators[] outside the array, ub, and whether it   *)
(* never returns, diverges.  In case ABYSS_TOTEM_T the function calls      *)
(* itself with totem, its own argument, not with the child in slot i.  The *)
(* inner call scans the same slots from head: those above i held nothing   *)
(* that contains ptr, so it reaches slot i and calls itself again, and so  *)
(* does every call it makes: the recursion has no end.                     *)
(***************************************************************************)
RECURSIVE _abyss_totem_contains_loop(_, _, _, _, _)

\* for ( int i = totem->head; 0 <= i; i-- ) { switch ( ... ) } return 0;
_abyss_totem_contains_loop(b, m, t, i, ptr) ==
    IF i < 0
    THEN [found |-> 0, ub |-> FALSE, diverges |-> FALSE]
    ELSE IF ~InArray(m[t], i)
    THEN [found |-> 0, ub |-> TRUE, diverges |-> FALSE]
    ELSE
      LET slot == Slot(m[t], i)
          a == slot.ptr
      IN  CASE slot.type = ABYSS_ARENA_T /\ _abyss_arena_contains(b, a, m[a], ptr) ->
                 [found |-> 1, ub |-> FALSE, diverges |-> FALSE]
            [] slot.type = ABYSS_SURGE_T /\ _abyss_surge_contains(b, a, m[a], ptr) ->
                 [found |-> 1, ub |-> FALSE, diverges |-> FALSE]
            [] slot.type = ABYSS_TOTEM_T ->
                 [found |-> 0, ub |-> FALSE, diverges |-> TRUE]
            [] OTHER -> _abyss_totem_contains_loop(b, m, t, i - 1, ptr)

_abyss_totem_contains(b, m, t, ptr) ==
    _abyss_totem_contains_loop(b, m, t, m[t].head, ptr)

\* Addresses asked about: the header, the first byte and the second block of
\* every Arena and Surge.
NestProbes ==
    UNION {{a, Start(a), Start(a) + ABYSS_DATA_ALIGN} : a \in Leaves}

(***************************************************************************)
(* C38.  On every acyclic Totem that holds a child, a nested Totem or not, *)
(* _abyss_totem_contains returns, and it returns true exactly if an Arena  *)
(* or a Surge reachable from the Totem contains the address.               *)
(***************************************************************************)
C38_TotemContainsTerminates ==
    \A t \in Totems : \A p \in NestProbes :
      (Count(mem, t) > 0 /\ t \notin Descendants(mem, t))
      => LET r == _abyss_totem_contains(build, mem, t, p)
         IN  /\ ~r.diverges
             /\ ~r.ub
             /\ r.found = 1 <=> \E a \in LeavesUnder(mem, t) : Contains(a, p)

====
